---- MODULE Spec2Model ----
(***************************************************************************)
(* A model of the cbor_next value model, encoder, decoder and              *)
(* canonicalizer (src/src/data_item.rs, src/src/content.rs).               *)
(*                                                                         *)
(* Bytes are naturals 0..255.  A u64 is kept as its 8 big-endian bytes, the *)
(* form extract_optional_number builds it in, so that no value of the      *)
(* program exceeds the range of TLC's integers.                            *)
(***************************************************************************)
EXTENDS Integers, Sequences, FiniteSets, TLC

(***************************************************************************)
(* Bounds of the model.                                                    *)
(***************************************************************************)
MaxLen == 6

(***************************************************************************)
(* Byte strings and u64.                                                   *)
(***************************************************************************)
RECURSIVE Flatten(_)
\* <[Vec<u8>]>::concat
Flatten(chunks) ==
    IF chunks = <<>> THEN <<>> ELSE Head(chunks) \o Flatten(Tail(chunks))

RECURSIVE Pow2(_)
\* 2u64.pow(n)
Pow2(n) == IF n = 0 THEN 1 ELSE 2 * Pow2(n - 1)

\* the limit above which a u64 is not converted to a natural number of TLC
Saturated == Pow2(30) + (Pow2(30) - 1)

ZeroBytes(n) == [i \in 1..n |-> 0]

\* u64::from(x) for a small natural x, as 8 big-endian bytes
NatToU64(x) ==
    [i \in 1..8 |-> CASE i = 8 -> x % 256
                      [] i = 7 -> (x \div 256) % 256
                      [] i = 6 -> (x \div 65536) % 256
                      [] i = 5 -> (x \div 16777216) % 256
                      [] OTHER -> 0]

\* the natural a u64 stands for; every u64 of 2^31 - 1 or more reads as
\* Saturated, which is more than any input of the model has bytes
U64ToNat(n) ==
    IF n[1] = 0 /\ n[2] = 0 /\ n[3] = 0 /\ n[4] = 0 /\ n[5] < 128
    THEN ((n[5] * 256 + n[6]) * 256 + n[7]) * 256 + n[8]
    ELSE Saturated

RECURSIVE SubBorrow(_, _, _, _)
\* a - b on big-endian bytes, from byte i down to byte 1
SubBorrow(a, b, i, borrow) ==
    IF i = 0 THEN <<>>
    ELSE LET d == a[i] - b[i] - borrow
         IN  SubBorrow(a, b, i - 1, IF d < 0 THEN 1 ELSE 0)
                 \o << IF d < 0 THEN d + 256 ELSE d >>

\* number - i of collect_vec_u8, where i is a small natural not above number
U64SubNat(number, i) == SubBorrow(number, NatToU64(i), 8, 0)

RECURSIVE AddCarry(_, _, _, _)
\* a + b on big-endian bytes, from byte i down to byte 1, the carry out of
\* the first byte dropped
AddCarry(a, b, i, carry) ==
    IF i = 0 THEN <<>>
    ELSE LET d == a[i] + b[i] + carry
         IN  AddCarry(a, b, i - 1, d \div 256) \o << d % 256 >>

\* the integer 1 in n big-endian bytes
OneBytes(n) == [i \in 1..n |-> IF i = n THEN 1 ELSE 0]

\* wrapping_neg, wrapping_sub(1) and wrapping_add(1) on an integer of
\* Len(a) bytes in two's complement
WrappingNeg(a) == SubBorrow(ZeroBytes(Len(a)), a, Len(a), 0)
WrappingSubOne(a) == SubBorrow(a, OneBytes(Len(a)), Len(a), 0)
WrappingAddOne(a) == AddCarry(a, OneBytes(Len(a)), Len(a), 0)

\* i64::MIN and u64::MAX
I64Min == <<128, 0, 0, 0, 0, 0, 0, 0>>
U64Max == <<255, 255, 255, 255, 255, 255, 255, 255>>

\* i64::is_negative
is_negative(value) == value[1] >= 128

\* i128::from(u64)
i128_from_u64(n) == ZeroBytes(8) \o n

(***************************************************************************)
(* What a call that can panic does: it returns a value or it panics.  An   *)
(* integer operation that overflows panics in a build with overflow checks *)
(* (debug) and wraps in a build without them (release).                    *)
(***************************************************************************)
Returned(v) == [panic |-> FALSE, val |-> v]

Panicked == [panic |-> TRUE]

\* Option
Some(v) == [some |-> TRUE, val |-> v]

None == [some |-> FALSE]

\* -value on i64
i64_neg(value, overflow_checks) ==
    IF value = I64Min
    THEN IF overflow_checks THEN Panicked ELSE Returned(value)
    ELSE Returned(WrappingNeg(value))

\* value - 1 on i64
i64_sub_one(value, overflow_checks) ==
    IF value = I64Min
    THEN IF overflow_checks THEN Panicked ELSE Returned(WrappingSubOne(value))
    ELSE Returned(WrappingSubOne(value))

\* num + 1 on u64
u64_add_one(num, overflow_checks) ==
    IF num = U64Max
    THEN IF overflow_checks THEN Panicked ELSE Returned(WrappingAddOne(num))
    ELSE Returned(WrappingAddOne(num))

(***************************************************************************)
(* Results.  Ok carries the value and the cursor after it; Err carries the *)
(* error variant and, for NotWellFormed, what its message reports.         *)
(***************************************************************************)
Ok(v, p) == [ok |-> TRUE, val |-> v, pos |-> p]

Err(e, m, a, n) == [ok |-> FALSE, err |-> e, msg |-> m, arg |-> a, num |-> n]

ErrPlain(e) == Err(e, "", 0, ZeroBytes(8))

\* the variants of Error that decode returns (src/src/error.rs)
Errors ==
    {"Incomplete", "FromUtf8", "IncompleteIndefinite", "InvalidSimple",
     "FromInt", "NotWellFormed", "InvalidBreakStop"}

(***************************************************************************)
(* Content model (src/src/content.rs).                                     *)
(***************************************************************************)
ByteContent_default == [indef |-> FALSE, chunks |-> <<>>]

\* From<Vec<u8>> for ByteContent, From<String> for TextContent
ByteContent_from(value) == [indef |-> FALSE, chunks |-> <<value>>]

set_indefinite(content, indefinite) == [content EXCEPT !.indef = indefinite]

set_bytes(content, byte) == [content EXCEPT !.chunks = <<byte>>]

add_bytes(content, byte) == [content EXCEPT !.chunks = Append(@, byte)]

extend_bytes(content, byte) == [content EXCEPT !.chunks = @ \o byte]

full(content) == Flatten(content.chunks)

chunk(content) == content.chunks

ArrayContent_default == [indef |-> FALSE, items |-> <<>>]

ArrayContent_set_content(content, array) == [content EXCEPT !.items = array]

MapContent_default == [indef |-> FALSE, entries |-> <<>>]

MapContent_set_content(content, map) == [content EXCEPT !.entries = map]

\* TryFrom<u8> for SimpleValue that lets the numbers 20..23 in
SimpleValue_try_from_upto_23(value) ==
    IF value \in 0..23 \/ value \in 32..255
    THEN Ok(value, 0)
    ELSE ErrPlain("InvalidSimple")

\* TryFrom<u8> for SimpleValue
SimpleValue_try_from(value) ==
    IF value \in 0..19 \/ value \in 32..255
    THEN Ok(value, 0)
    ELSE ErrPlain("InvalidSimple")

(***************************************************************************)
(* DataItem (src/src/data_item.rs).                                        *)
(***************************************************************************)
Unsigned(n) == [kind |-> "Unsigned", num |-> n]
Signed(n) == [kind |-> "Signed", num |-> n]
Byte(c) == [kind |-> "Byte", indef |-> c.indef, chunks |-> c.chunks]
Text(c) == [kind |-> "Text", indef |-> c.indef, chunks |-> c.chunks]
Array(c) == [kind |-> "Array", indef |-> c.indef, items |-> c.items]
Map(c) == [kind |-> "Map", indef |-> c.indef, entries |-> c.entries]
Tag(n, c) == [kind |-> "Tag", tag |-> n, content |-> c]
Boolean(b) == [kind |-> "Boolean", b |-> b]
Null == [kind |-> "Null"]
Undefined == [kind |-> "Undefined"]
Floating(bits) == [kind |-> "Floating", bits |-> bits]
GenericSimple(s) == [kind |-> "GenericSimple", simple |-> s]

\* DataItem::major_type with Floating in the arm of Tag
major_type_floating_as_tag(item) ==
    CASE item.kind = "Unsigned" -> 0
      [] item.kind = "Signed" -> 1
      [] item.kind = "Byte" -> 2
      [] item.kind = "Text" -> 3
      [] item.kind = "Array" -> 4
      [] item.kind = "Map" -> 5
      [] item.kind \in {"Tag", "Floating"} -> 6
      [] OTHER -> 7

\* DataItem::major_type
major_type(item) ==
    CASE item.kind = "Unsigned" -> 0
      [] item.kind = "Signed" -> 1
      [] item.kind = "Byte" -> 2
      [] item.kind = "Text" -> 3
      [] item.kind = "Array" -> 4
      [] item.kind = "Map" -> 5
      [] item.kind = "Tag" -> 6
      [] OTHER -> 7

\* From<i64> for DataItem
DataItem_from_i64(value, overflow_checks) ==
    IF is_negative(value)
    THEN LET negated == i64_neg(value, overflow_checks)
         IN  IF negated.panic THEN Panicked
             ELSE LET positive_val == i64_sub_one(negated.val, overflow_checks)
                  IN  IF positive_val.panic THEN Panicked
                      ELSE IF is_negative(positive_val.val) THEN Panicked
                      ELSE Returned(Signed(positive_val.val))
    ELSE Returned(Unsigned(value))

\* DataItem::as_signed
as_signed(item, overflow_checks) ==
    IF item.kind = "Signed"
    THEN LET sum == u64_add_one(item.num, overflow_checks)
         IN  IF sum.panic THEN Panicked
             ELSE Returned(Some(WrappingNeg(i128_from_u64(sum.val))))
    ELSE Returned(None)

\* DataItem::as_number
as_number(item, overflow_checks) ==
    CASE item.kind = "Unsigned" -> Returned(Some(i128_from_u64(item.num)))
      [] item.kind = "Signed" ->
            LET sum == u64_add_one(item.num, overflow_checks)
            IN  IF sum.panic THEN Panicked
                ELSE Returned(Some(WrappingNeg(i128_from_u64(sum.val))))
      [] OTHER -> Returned(None)

\* DataItem::is_unsigned_integer
is_unsigned_integer(item) == item.kind = "Unsigned"

\* DataItem::is_byte
is_byte(item) == item.kind = "Byte"

\* DataItem::is_tag
is_tag(item) == item.kind = "Tag"

\* DataItem::is_null
is_null(item) == item.kind = "Null"

\* DataItem::as_unsigned
as_unsigned(item) == IF item.kind = "Unsigned" THEN Some(item.num) ELSE None

\* DataItem::as_byte
as_byte(item) == IF item.kind = "Byte" THEN Some(full(item)) ELSE None

\* DataItem::as_tag
as_tag(item) ==
    IF item.kind = "Tag" THEN Some(<<item.tag, item.content>>) ELSE None

\* DataItem::as_boolean
as_boolean(item) == IF item.kind = "Boolean" THEN Some(item.b) ELSE None

\* the functions handed to check_inner and as_inner, by name
Checkers == {"is_unsigned_integer", "is_byte", "is_tag", "is_null"}

Extractors == {"as_unsigned", "as_byte", "as_tag", "as_boolean"}

\* checker(item)
call_checker(checker, item) ==
    CASE checker = "is_unsigned_integer" -> is_unsigned_integer(item)
      [] checker = "is_byte" -> is_byte(item)
      [] checker = "is_tag" -> is_tag(item)
      [] checker = "is_null" -> is_null(item)

\* extractor(item)
call_extractor(extractor, item) ==
    CASE extractor = "as_unsigned" -> as_unsigned(item)
      [] extractor = "as_byte" -> as_byte(item)
      [] extractor = "as_tag" -> as_tag(item)
      [] extractor = "as_boolean" -> as_boolean(item)

RECURSIVE check_inner(_, _)
\* DataItem::check_inner
check_inner(item, checker) ==
    IF item.kind = "Tag" THEN check_inner(item.content, checker)
    ELSE call_checker(checker, item)

RECURSIVE extract_and_extend_tags(_, _, _)
\* extract_and_extend_tags that puts each tag number before the ones pushed
\* so far
extract_and_extend_tags_inner_first(item, extractor, tags) ==
    IF item.kind = "Tag"
    THEN extract_and_extend_tags(item.content, extractor,
                                 <<item.tag>> \o tags)
    ELSE [ret |-> call_extractor(extractor, item), tags |-> tags]

\* extract_and_extend_tags: what it returns, and tags when it returns
extract_and_extend_tags(item, extractor, tags) ==
    IF item.kind = "Tag"
    THEN extract_and_extend_tags(item.content, extractor,
                                 Append(tags, item.tag))
    ELSE [ret |-> call_extractor(extractor, item), tags |-> tags]

\* DataItem::as_inner
as_inner(item, extractor) ==
    LET extracted == extract_and_extend_tags(item, extractor, <<>>)
    IN  IF extracted.ret.some
        THEN Some(<<extracted.tags, extracted.ret.val>>)
        ELSE None

(***************************************************************************)
(* IEEE 754 binary16/32/64 as bit patterns.  An f64 is its 8 big-endian    *)
(* bytes; it is taken apart into sign, the 11 exponent bits, the upper 20  *)
(* mantissa bits and the lower 32 mantissa bits (as 4 bytes).              *)
(***************************************************************************)
F64Sign(x) == x[1] \div 128
F64Exp(x) == (x[1] % 128) * 16 + (x[2] \div 16)
F64ManHi(x) == ((x[2] % 16) * 256 + x[3]) * 256 + x[4]
F64ManLo(x) == <<x[5], x[6], x[7], x[8]>>

MakeF64(sign, exp, manHi, manLo) ==
    << sign * 128 + (exp \div 16),
       (exp % 16) * 16 + (manHi \div 65536),
       (manHi \div 256) % 256,
       manHi % 256 >> \o manLo

F64IsNaN(x) == F64Exp(x) = 2047 /\ (F64ManHi(x) # 0 \/ F64ManLo(x) # ZeroBytes(4))

F64IsZero(x) == F64Exp(x) = 0 /\ F64ManHi(x) = 0 /\ F64ManLo(x) = ZeroBytes(4)

\* f64 == f64: a NaN equals nothing, the two zeros are equal
FloatEq(x, y) ==
    /\ ~F64IsNaN(x)
    /\ ~F64IsNaN(y)
    /\ (x = y \/ (F64IsZero(x) /\ F64IsZero(y)))

RECURSIVE LeadingZeros(_, _)
\* the number of zero bits above the highest set bit of m in a field of w bits
LeadingZeros(m, w) ==
    IF w = 0 \/ m >= Pow2(w - 1) THEN 0 ELSE 1 + LeadingZeros(m, w - 1)

\* f64::from(half::f16::from_bits(h)), h the 16 bits as a natural
F16ToF64(h) ==
    LET sign == h \div 32768
        hexp == (h \div 1024) % 32
        hman == h % 1024
        e == LeadingZeros(hman, 10)
    IN  CASE hexp = 0 /\ hman = 0 -> MakeF64(sign, 0, 0, ZeroBytes(4))
          [] hexp = 31 /\ hman = 0 -> MakeF64(sign, 2047, 0, ZeroBytes(4))
          [] hexp = 31 /\ hman # 0 ->
                MakeF64(sign, 2047, 524288 + (hman % 512) * 1024, ZeroBytes(4))
          [] hexp = 0 /\ hman # 0 ->
                MakeF64(sign, 1008 - e, ((hman * Pow2(e + 1)) % 1024) * 1024,
                        ZeroBytes(4))
          [] OTHER -> MakeF64(sign, hexp + 1008, hman * 1024, ZeroBytes(4))

\* f64::from(f32::from_bits(w)), w the 4 big-endian bytes
F32ToF64(w) ==
    LET sign == w[1] \div 128
        exp8 == (w[1] % 128) * 2 + (w[2] \div 128)
        man23 == ((w[2] % 128) * 256 + w[3]) * 256 + w[4]
        e == LeadingZeros(man23, 23)
        norm == (man23 * Pow2(e + 1)) % 8388608
        Wide(m) == <<(m % 8) * 32, 0, 0, 0>>
    IN  CASE exp8 = 0 /\ man23 = 0 -> MakeF64(sign, 0, 0, ZeroBytes(4))
          [] exp8 = 255 /\ man23 = 0 -> MakeF64(sign, 2047, 0, ZeroBytes(4))
          [] exp8 = 255 /\ man23 # 0 ->
                MakeF64(sign, 2047, 524288 + ((man23 \div 8) % 524288), Wide(man23))
          [] exp8 = 0 /\ man23 # 0 ->
                MakeF64(sign, 896 - e, norm \div 8, Wide(norm))
          [] OTHER -> MakeF64(sign, exp8 + 896, man23 \div 8, Wide(man23))

\* man & (3 * round_bit - 1) != 0, round_bit a power of two
RoundMask(man, round_bit) ==
    (man % round_bit # 0) \/ ((man \div (2 * round_bit)) % 2 = 1)

\* half::f16::from_f64(x), the 16 bits as a natural
F16FromF64(x) ==
    LET sign == F64Sign(x) * 32768
        exp == F64Exp(x)
        man == F64ManHi(x)
        half_exp == exp - 1008
        sub_man == man + 1048576
        sub_round == Pow2(10 - half_exp)
        sub_half == sub_man \div Pow2(11 - half_exp)
        up(m, r) == IF (m \div r) % 2 = 1 /\ RoundMask(m, r) THEN 1 ELSE 0
    IN  CASE exp = 2047 ->
                sign + 31744 + (man \div 1024)
                + (IF man = 0 /\ F64ManLo(x) = ZeroBytes(4) THEN 0
                   ELSE IF (man \div 1024) >= 512 THEN 0 ELSE 512)
          [] exp # 2047 /\ half_exp >= 31 -> sign + 31744
          [] exp # 2047 /\ half_exp <= 0 /\ 10 - half_exp > 21 -> sign
          [] exp # 2047 /\ half_exp <= 0 /\ 10 - half_exp <= 21 ->
                sign + sub_half + up(sub_man, sub_round)
          [] OTHER -> sign + half_exp * 1024 + (man \div 1024) + up(man, 512)

\* x as f32, the 4 big-endian bytes (round to nearest, ties to even)
F32FromF64(x) ==
    LET sign == F64Sign(x)
        exp == F64Exp(x)
        lo == F64ManLo(x)
        man23 == F64ManHi(x) * 8 + (lo[1] \div 32)
        round == (lo[1] \div 16) % 2
        sticky == (lo[1] % 16 # 0) \/ lo[2] # 0 \/ lo[3] # 0 \/ lo[4] # 0
        exp8 == exp - 896
        sig24 == 8388608 + man23
        sh == 1 - exp8
        q == sig24 \div Pow2(sh)
        rem == sig24 % Pow2(sh)
        mid == Pow2(sh - 1)
        rest == round = 1 \/ sticky
        normal == exp8 * 8388608 + man23
                  + (IF round = 1 /\ (sticky \/ man23 % 2 = 1) THEN 1 ELSE 0)
        subnormal == q + (IF rem > mid \/ (rem = mid /\ (rest \/ q % 2 = 1))
                          THEN 1 ELSE 0)
        Pack(m) == << sign * 128 + (m \div 16777216), (m \div 65536) % 256,
                      (m \div 256) % 256, m % 256 >>
    IN  CASE exp = 2047 /\ ~F64IsNaN(x) -> Pack(2139095040)
          [] exp = 2047 /\ F64IsNaN(x) ->
                Pack(2139095040 + 4194304 + (man23 % 4194304))
          [] exp # 2047 /\ exp8 >= 255 -> Pack(2139095040)
          [] exp # 2047 /\ exp8 <= 0 /\ sh > 25 -> Pack(0)
          [] exp # 2047 /\ exp8 <= 0 /\ sh <= 25 -> Pack(subnormal)
          [] OTHER -> Pack(normal)

(***************************************************************************)
(* Equality and map lookup.                                                *)
(***************************************************************************)
RECURSIVE hash(_)
\* Hash for DataItem: what is fed to the hasher, in order: the variant, then
\* the fields (a content as its flag and its chunks or items, the entries
\* of a map in the order of the IndexMap, an f64 as its bytes; nothing for
\* Null and Undefined).  Two values have the same hash when they feed the
\* same
hash(item) ==
    CASE item.kind \in {"Unsigned", "Signed"} -> <<item.kind, item.num>>
      [] item.kind \in {"Byte", "Text"} ->
            <<item.kind, item.indef, item.chunks>>
      [] item.kind = "Array" ->
            <<item.kind, item.indef,
              [i \in 1..Len(item.items) |-> hash(item.items[i])]>>
      [] item.kind = "Map" ->
            <<item.kind, item.indef,
              [i \in 1..Len(item.entries) |->
                  <<hash(item.entries[i][1]), hash(item.entries[i][2])>>]>>
      [] item.kind = "Tag" -> <<item.kind, item.tag, hash(item.content)>>
      [] item.kind = "Boolean" -> <<item.kind, item.b>>
      [] item.kind = "Floating" -> <<item.kind, item.bits>>
      [] item.kind = "GenericSimple" -> <<item.kind, item.simple>>
      [] OTHER -> <<item.kind>>

RECURSIVE DataItemEq(_, _)
\* #[derive(PartialEq)] for DataItem: f64 compares as a number, and an
\* IndexMap equals another when both have the same length and every key of
\* the first is found in the second with an equal value, in whatever order
DataItemEq(a, b) ==
    IF a.kind # b.kind THEN FALSE
    ELSE CASE a.kind = "Floating" -> FloatEq(a.bits, b.bits)
           [] a.kind = "Array" ->
                /\ a.indef = b.indef
                /\ Len(a.items) = Len(b.items)
                /\ \A i \in 1..Len(a.items) : DataItemEq(a.items[i], b.items[i])
           [] a.kind = "Map" ->
                /\ a.indef = b.indef
                /\ Len(a.entries) = Len(b.entries)
                /\ \A i \in 1..Len(a.entries) :
                     \E j \in 1..Len(b.entries) :
                        /\ a.entries[i][1] = b.entries[j][1]
                        /\ DataItemEq(a.entries[i][1], b.entries[j][1])
                        /\ DataItemEq(a.entries[i][2], b.entries[j][2])
           [] a.kind = "Tag" ->
                a.tag = b.tag /\ DataItemEq(a.content, b.content)
           [] OTHER -> a = b

\* the lookup of a key in an IndexMap: the stored key has the hash of the
\* probe and is == to it.  Hash for DataItem feeds the hasher the variant
\* and every field in order (the entries of a map in insertion order, an f64
\* as its bytes), which is the structure of the value itself
KeyMatch(stored, probe) == stored = probe /\ DataItemEq(stored, probe)

\* IndexMap::get_index_of
IndexOfKey(map, key) ==
    IF \E i \in 1..Len(map) : KeyMatch(map[i][1], key)
    THEN CHOOSE i \in 1..Len(map) : KeyMatch(map[i][1], key)
    ELSE 0

\* Get<DataItem> for DataItem: get(idx)
get(item, idx) ==
    IF item.kind = "Map"
    THEN LET i == IndexOfKey(item.entries, idx)
         IN  IF i = 0 THEN None ELSE Some(item.entries[i][2])
    ELSE None

\* IndexMap::insert: the map after it, and whether an old value was returned
IndexMap_insert(map, key, value) ==
    LET i == IndexOfKey(map, key)
    IN  IF i = 0
        THEN [map |-> Append(map, <<key, value>>), old |-> FALSE]
        ELSE [map |-> [map EXCEPT ![i] = <<map[i][1], value>>], old |-> TRUE]

RECURSIVE IndexMap_extend(_, _)
\* IndexMap::extend: insert every entry of other in order
IndexMap_extend(map, other) ==
    IF other = <<>> THEN map
    ELSE IndexMap_extend(IndexMap_insert(map, other[1][1], other[1][2]).map,
                         Tail(other))

(***************************************************************************)
(* Encoder.                                                                *)
(***************************************************************************)
\* encode_u64_number with the inline range one too wide: 24 goes in the header
encode_u64_number_inline24(major, number) ==
    LET shifted_major_type == major * 32
    IN  IF SubSeq(number, 1, 7) = ZeroBytes(7)
        THEN IF number[8] <= 24
             THEN << shifted_major_type + number[8] >>
             ELSE << shifted_major_type + 24, number[8] >>
        ELSE IF SubSeq(number, 1, 6) = ZeroBytes(6)
        THEN << shifted_major_type + 25 >> \o SubSeq(number, 7, 8)
        ELSE IF SubSeq(number, 1, 4) = ZeroBytes(4)
        THEN << shifted_major_type + 26 >> \o SubSeq(number, 5, 8)
        ELSE << shifted_major_type + 27 >> \o number

\* encode_u64_number that writes 24..255 in two bytes
encode_u64_number_skip_u8(major, number) ==
    LET shifted_major_type == major * 32
    IN  IF SubSeq(number, 1, 7) = ZeroBytes(7) /\ number[8] <= 23
        THEN << shifted_major_type + number[8] >>
        ELSE IF SubSeq(number, 1, 6) = ZeroBytes(6)
        THEN << shifted_major_type + 25 >> \o SubSeq(number, 7, 8)
        ELSE IF SubSeq(number, 1, 4) = ZeroBytes(4)
        THEN << shifted_major_type + 26 >> \o SubSeq(number, 5, 8)
        ELSE << shifted_major_type + 27 >> \o number

\* encode_u64_number
encode_u64_number(major, number) ==
    LET shifted_major_type == major * 32
    IN  IF SubSeq(number, 1, 7) = ZeroBytes(7)
        THEN IF number[8] <= 23
             THEN << shifted_major_type + number[8] >>
             ELSE << shifted_major_type + 24, number[8] >>
        ELSE IF SubSeq(number, 1, 6) = ZeroBytes(6)
        THEN << shifted_major_type + 25 >> \o SubSeq(number, 7, 8)
        ELSE IF SubSeq(number, 1, 4) = ZeroBytes(4)
        THEN << shifted_major_type + 26 >> \o SubSeq(number, 5, 8)
        ELSE << shifted_major_type + 27 >> \o number

RECURSIVE encode_vec_u8(_, _)
RECURSIVE encode_chunks(_, _)
\* the loop over byte.chunk() of encode_vec_u8
encode_chunks(major, chunks) ==
    IF chunks = <<>> THEN <<>>
    ELSE encode_vec_u8(major,
                       set_bytes(set_indefinite(ByteContent_default, FALSE),
                                 Head(chunks)))
         \o encode_chunks(major, Tail(chunks))

\* encode_vec_u8; u64::try_from(usize) cannot fail, so the length is a u64
encode_vec_u8(major, byte) ==
    IF byte.indef
    THEN << major * 32 + 31 >> \o encode_chunks(major, chunk(byte)) \o << 255 >>
    ELSE encode_u64_number(major, NatToU64(Len(full(byte)))) \o full(byte)

\* encode_f64_number that never tries half precision
encode_f64_number_no_half(major, f64_number) ==
    LET shifted_major_type == major * 32
        f32_num == F32FromF64(f64_number)
    IN  IF FloatEq(F32ToF64(f32_num), f64_number)
        THEN << shifted_major_type + 26 >> \o f32_num
        ELSE << shifted_major_type + 27 >> \o f64_number

\* encode_f64_number
encode_f64_number(major, f64_number) ==
    LET shifted_major_type == major * 32
        f16_num == F16FromF64(f64_number)
        f32_num == F32FromF64(f64_number)
    IN  IF FloatEq(F16ToF64(f16_num), f64_number)
        THEN << shifted_major_type + 25, f16_num \div 256, f16_num % 256 >>
        ELSE IF FloatEq(F32ToF64(f32_num), f64_number)
        THEN << shifted_major_type + 26 >> \o f32_num
        ELSE << shifted_major_type + 27 >> \o f64_number

\* From<TextContent> for ByteContent: every chunk as its UTF-8 bytes, which
\* is how the chunks of a text content are kept here
ByteContent_from_text(item) == [indef |-> item.indef, chunks |-> item.chunks]

RECURSIVE encode(_)
RECURSIVE encode_items(_)
RECURSIVE encode_entries(_)
\* the loop over array.array() of DataItem::encode
encode_items(items) ==
    IF items = <<>> THEN <<>>
    ELSE encode(Head(items)) \o encode_items(Tail(items))

\* the loop over map.map() of DataItem::encode
encode_entries(entries) ==
    IF entries = <<>> THEN <<>>
    ELSE encode(entries[1][1]) \o encode(entries[1][2])
         \o encode_entries(Tail(entries))

\* DataItem::encode
encode(item) ==
    LET mt == major_type(item)
    IN  CASE item.kind \in {"Unsigned", "Signed"} -> encode_u64_number(mt, item.num)
          [] item.kind = "Byte" ->
                encode_vec_u8(mt, [indef |-> item.indef, chunks |-> item.chunks])
          [] item.kind = "Text" -> encode_vec_u8(mt, ByteContent_from_text(item))
          [] item.kind = "Array" ->
                IF item.indef
                THEN << mt * 32 + 31 >> \o encode_items(item.items) \o << 255 >>
                ELSE encode_u64_number(mt, NatToU64(Len(item.items)))
                     \o encode_items(item.items)
          [] item.kind = "Map" ->
                IF item.indef
                THEN << mt * 32 + 31 >> \o encode_entries(item.entries) \o << 255 >>
                ELSE encode_u64_number(mt, NatToU64(Len(item.entries)))
                     \o encode_entries(item.entries)
          [] item.kind = "Tag" ->
                encode_u64_number(mt, item.tag) \o encode(item.content)
          [] item.kind = "Boolean" ->
                IF item.b THEN << mt * 32 + 21 >> ELSE << mt * 32 + 20 >>
          [] item.kind = "Null" -> << mt * 32 + 22 >>
          [] item.kind = "Undefined" -> << mt * 32 + 23 >>
          [] item.kind = "Floating" -> encode_f64_number(mt, item.bits)
          [] item.kind = "GenericSimple" ->
                IF item.simple <= 23
                THEN << mt * 32 + item.simple >>
                ELSE << mt * 32 + 24, item.simple >>

(***************************************************************************)
(* Decoder.  The iterator over the input is the input s and the index p of *)
(* the next byte; a result that is Ok carries the index after what it      *)
(* consumed.                                                               *)
(***************************************************************************)
\* String::from_utf8(bytes).is_ok()
RECURSIVE ValidUtf8(_)
ValidUtf8(b) ==
    LET n == Len(b)
        Cont(i) == i <= n /\ b[i] \in 128..191
    IN  IF n = 0 THEN TRUE
        ELSE IF b[1] <= 127 THEN ValidUtf8(Tail(b))
        ELSE IF b[1] \in 194..223
        THEN Cont(2) /\ ValidUtf8(SubSeq(b, 3, n))
        ELSE IF b[1] \in 224..239
        THEN /\ Cont(2) /\ Cont(3)
             /\ (b[1] = 224 => b[2] >= 160)
             /\ (b[1] = 237 => b[2] <= 159)
             /\ ValidUtf8(SubSeq(b, 4, n))
        ELSE IF b[1] \in 240..244
        THEN /\ Cont(2) /\ Cont(3) /\ Cont(4)
             /\ (b[1] = 240 => b[2] >= 144)
             /\ (b[1] = 244 => b[2] <= 143)
             /\ ValidUtf8(SubSeq(b, 5, n))
        ELSE FALSE

\* the `?` operator on a Result: the error of r, or what F makes of r
Try(r, F(_)) == IF r.ok THEN F(r) ELSE r

\* collect_vec_u8: the next `number` bytes, or how many of them are missing
collect_vec_u8(s, p, number) ==
    LET avail == Len(s) - p + 1
        n == U64ToNat(number)
    IN  IF n <= avail
        THEN Ok(SubSeq(s, p, p + n - 1), p + n)
        ELSE Err("NotWellFormed", "incomplete array of byte missing", 0,
                 U64SubNat(number, avail))

\* extract_optional_number that takes the reserved additional information
\* 28..30 for the end of the input
extract_optional_number_reserved_incomplete(additional, s, p) ==
    CASE additional \in 0..23 ->
            Ok([some |-> TRUE, num |-> NatToU64(additional)], p)
      [] additional \in 24..27 ->
            Try(collect_vec_u8(s, p, NatToU64(Pow2(additional - 24))),
                LAMBDA number_bytes :
                    Ok([some |-> TRUE,
                        num |-> ZeroBytes(8 - Len(number_bytes.val))
                                \o number_bytes.val],
                       number_bytes.pos))
      [] additional \in 28..30 -> ErrPlain("Incomplete")
      [] additional = 31 -> Ok([some |-> FALSE, num |-> ZeroBytes(8)], p)
      [] OTHER -> ErrPlain("Panic")

\* extract_optional_number: Some(number) or None (additional information 31)
extract_optional_number(additional, s, p) ==
    CASE additional \in 0..23 ->
            Ok([some |-> TRUE, num |-> NatToU64(additional)], p)
      [] additional \in 24..27 ->
            Try(collect_vec_u8(s, p, NatToU64(Pow2(additional - 24))),
                LAMBDA number_bytes :
                    Ok([some |-> TRUE,
                        num |-> ZeroBytes(8 - Len(number_bytes.val))
                                \o number_bytes.val],
                       number_bytes.pos))
      [] additional \in 28..30 ->
            Err("NotWellFormed", "invalid additional number", additional,
                ZeroBytes(8))
      [] additional = 31 -> Ok([some |-> FALSE, num |-> ZeroBytes(8)], p)
      [] OTHER -> ErrPlain("Panic")

\* extract_number
extract_number(additional, s, p) ==
    Try(extract_optional_number(additional, s, p),
        LAMBDA number :
            IF number.val.some THEN Ok(number.val.num, number.pos)
            ELSE Err("NotWellFormed", "failed to extract number", 0,
                     ZeroBytes(8)))

RECURSIVE decode_indefinite_byte_or_text(_, _, _)
\* decode_indefinite_byte_or_text that takes a chunk of any major type
decode_indefinite_byte_or_text_any_major(expected_major_type, s, p) ==
    IF p > Len(s) THEN ErrPlain("IncompleteIndefinite")
    ELSE IF s[p] = 255 THEN Ok(<<>>, p)
    ELSE Try(extract_number(s[p] % 32, s, p + 1),
             LAMBDA length :
                 Try(collect_vec_u8(s, length.pos, length.val),
                     LAMBDA bytes :
                         Try(decode_indefinite_byte_or_text(
                                 expected_major_type, s, bytes.pos),
                             LAMBDA rest :
                                 Ok(<<bytes.val>> \o rest.val, rest.pos))))

\* decode_indefinite_byte_or_text: the chunks up to, and without, the break
decode_indefinite_byte_or_text(expected_major_type, s, p) ==
    IF p > Len(s) THEN ErrPlain("IncompleteIndefinite")
    ELSE IF s[p] = 255 THEN Ok(<<>>, p)
    ELSE IF expected_major_type # s[p] \div 32
    THEN Err("NotWellFormed",
             "contains invalid major type for indefinite major type",
             s[p] \div 32, NatToU64(expected_major_type))
    ELSE Try(extract_number(s[p] % 32, s, p + 1),
             LAMBDA length :
                 Try(collect_vec_u8(s, length.pos, length.val),
                     LAMBDA bytes :
                         Try(decode_indefinite_byte_or_text(
                                 expected_major_type, s, bytes.pos),
                             LAMBDA rest :
                                 Ok(<<bytes.val>> \o rest.val, rest.pos))))

\* decode_byte_or_text that keeps the chunks of an indefinite-length string
\* as one chunk
decode_byte_or_text_joined(major, additional, s, p) ==
    Try(extract_optional_number(additional, s, p),
        LAMBDA length :
            IF length.val.some
            THEN Try(collect_vec_u8(s, length.pos, length.val.num),
                     LAMBDA bytes :
                         Ok(set_bytes(set_indefinite(ByteContent_default, FALSE),
                                      bytes.val),
                            bytes.pos))
            ELSE Try(decode_indefinite_byte_or_text(major, s, length.pos),
                     LAMBDA chunks :
                         Ok(set_bytes(
                                set_indefinite(ByteContent_default, TRUE),
                                Flatten(chunks.val)),
                            chunks.pos + 1)))

\* decode_byte_or_text
decode_byte_or_text(major, additional, s, p) ==
    Try(extract_optional_number(additional, s, p),
        LAMBDA length :
            IF length.val.some
            THEN Try(collect_vec_u8(s, length.pos, length.val.num),
                     LAMBDA bytes :
                         Ok(set_bytes(set_indefinite(ByteContent_default, FALSE),
                                      bytes.val),
                            bytes.pos))
            ELSE Try(decode_indefinite_byte_or_text(major, s, length.pos),
                     LAMBDA chunks :
                         Ok(extend_bytes(
                                set_indefinite(ByteContent_default, TRUE),
                                chunks.val),
                            chunks.pos + 1)))

\* the loop of TryFrom<ByteContent> for TextContent without String::from_utf8
TextContent_add_chunks_unchecked(text_content, chunks) ==
    Ok(extend_bytes(text_content, chunks), 0)

RECURSIVE TextContent_add_chunks(_, _)
\* the loop of TryFrom<ByteContent> for TextContent: add_string for every
\* chunk that is valid UTF-8 by itself, the FromUtf8Error of the first that
\* is not
TextContent_add_chunks(text_content, chunks) ==
    IF chunks = <<>> THEN Ok(text_content, 0)
    ELSE IF ~ValidUtf8(Head(chunks)) THEN ErrPlain("FromUtf8")
    ELSE TextContent_add_chunks(add_bytes(text_content, Head(chunks)),
                                Tail(chunks))

\* TryFrom<ByteContent> for TextContent
TextContent_try_from(value) ==
    TextContent_add_chunks(set_indefinite(ByteContent_default, value.indef),
                           chunk(value))

\* the value of major type 7 behind the header with this additional
\* information, the break excepted
simple_or_floating(additional, s, p) ==
    CASE additional \in 0..19 ->
            Try(SimpleValue_try_from(additional),
                LAMBDA simple : Ok(GenericSimple(simple.val), p))
      [] additional = 20 -> Ok(Boolean(FALSE), p)
      [] additional = 21 -> Ok(Boolean(TRUE), p)
      [] additional = 22 -> Ok(Null, p)
      [] additional = 23 -> Ok(Undefined, p)
      [] additional = 24 ->
            IF p <= Len(s)
            THEN IF s[p] < 32 THEN ErrPlain("InvalidSimple")
                 ELSE Try(SimpleValue_try_from(s[p]),
                          LAMBDA simple : Ok(GenericSimple(simple.val), p + 1))
            ELSE ErrPlain("InvalidSimple")
      [] additional = 25 ->
            Try(extract_number(additional, s, p),
                LAMBDA number :
                    IF SubSeq(number.val, 1, 6) # ZeroBytes(6)
                    THEN ErrPlain("FromInt")
                    ELSE Ok(Floating(F16ToF64(number.val[7] * 256
                                              + number.val[8])),
                            number.pos))
      [] additional = 26 ->
            Try(extract_number(additional, s, p),
                LAMBDA number :
                    IF SubSeq(number.val, 1, 4) # ZeroBytes(4)
                    THEN ErrPlain("FromInt")
                    ELSE Ok(Floating(F32ToF64(SubSeq(number.val, 5, 8))),
                            number.pos))
      [] additional = 27 ->
            Try(extract_number(additional, s, p),
                LAMBDA number : Ok(Floating(number.val), number.pos))
      [] additional \in 28..30 ->
            Err("NotWellFormed", "invalid value for major type 7", additional,
                ZeroBytes(8))
      [] OTHER -> ErrPlain("Panic")

\* decode_simple_or_floating that takes additional information 31 for a
\* missing item
decode_simple_or_floating_no_break(additional, s, p) ==
    IF additional = 31 THEN ErrPlain("Incomplete")
    ELSE simple_or_floating(additional, s, p)

\* decode_simple_or_floating
decode_simple_or_floating(additional, s, p) ==
    IF additional = 31 THEN ErrPlain("InvalidBreakStop")
    ELSE simple_or_floating(additional, s, p)

RECURSIVE decode_value(_, _)
RECURSIVE decode_items(_, _, _)
RECURSIVE extract_array_item(_, _)
RECURSIVE decode_entries(_, _, _, _)
RECURSIVE extract_map_item(_, _)

\* the loop `for _ in 0..num` of decode_array
decode_items(s, p, num) ==
    IF num = 0 THEN Ok(<<>>, p)
    ELSE Try(decode_value(s, p),
             LAMBDA first :
                 Try(decode_items(s, first.pos, num - 1),
                     LAMBDA rest : Ok(<<first.val>> \o rest.val, rest.pos)))

\* extract_array_item that stops at the byte 00 as well
extract_array_item_stops_at_zero(s, p) ==
    IF p <= Len(s) /\ s[p] # 255 /\ s[p] # 0
    THEN Try(decode_value(s, p),
             LAMBDA first :
                 Try(extract_array_item(s, first.pos),
                     LAMBDA rest : Ok(<<first.val>> \o rest.val, rest.pos)))
    ELSE Ok(<<>>, p)

\* extract_array_item: the items up to, and without, the break or the end
extract_array_item(s, p) ==
    IF p <= Len(s) /\ s[p] # 255
    THEN Try(decode_value(s, p),
             LAMBDA first :
                 Try(extract_array_item(s, first.pos),
                     LAMBDA rest : Ok(<<first.val>> \o rest.val, rest.pos)))
    ELSE Ok(<<>>, p)

\* the end of decode_array and decode_map behind the items of an
\* indefinite-length form: the break is consumed, its absence is an error
\* named by the caller
close_indefinite(s, open, made, missing) ==
    IF open.pos > Len(s) THEN ErrPlain(missing)
    ELSE IF s[open.pos] # 255 THEN ErrPlain("Panic")
    ELSE Ok(made, open.pos + 1)

\* decode_array with the error for the missing break left open
array_from(additional, s, p, missing) ==
    Try(extract_optional_number(additional, s, p),
        LAMBDA length :
            IF length.val.some
            THEN Try(decode_items(s, length.pos, U64ToNat(length.val.num)),
                     LAMBDA fixed :
                         Ok(Array(ArrayContent_set_content(
                                set_indefinite(ArrayContent_default, FALSE),
                                fixed.val)),
                            fixed.pos))
            ELSE Try(extract_array_item(s, length.pos),
                     LAMBDA open :
                         close_indefinite(
                             s, open,
                             Array(ArrayContent_set_content(
                                 set_indefinite(ArrayContent_default, TRUE),
                                 open.val)),
                             missing)))

\* decode_array that reports an array without its break as Incomplete
decode_array_plain_incomplete(additional, s, p) ==
    array_from(additional, s, p, "Incomplete")

\* decode_array
decode_array(additional, s, p) ==
    array_from(additional, s, p, "IncompleteIndefinite")

\* map_index_map.insert(key, val) of decode_map and extract_map_item, and
\* the error when it returns the old value
insert_new(map_index_map, key, val) ==
    LET inserted == IndexMap_insert(map_index_map, key, val)
    IN  IF inserted.old
        THEN Err("NotWellFormed", "same map key is repeated multiple times",
                 0, ZeroBytes(8))
        ELSE Ok(inserted.map, 0)

\* the loop `for _ in 0..num` of decode_map, on the map built so far
decode_entries(s, p, num, map_index_map) ==
    IF num = 0 THEN Ok(map_index_map, p)
    ELSE Try(decode_value(s, p),
             LAMBDA key :
                 Try(decode_value(s, key.pos),
                     LAMBDA val :
                         Try(insert_new(map_index_map, key.val, val.val),
                             LAMBDA inserted :
                                 decode_entries(s, val.pos, num - 1,
                                                inserted.val))))

\* extract_map_item: every call starts from IndexMap::new(), inserts its own
\* entry and extends the map by the entries of the recursive call
extract_map_item(s, p) ==
    IF p <= Len(s) /\ s[p] # 255
    THEN Try(decode_value(s, p),
             LAMBDA key :
                 Try(decode_value(s, key.pos),
                     LAMBDA val :
                         Try(insert_new(<<>>, key.val, val.val),
                             LAMBDA inserted :
                                 Try(extract_map_item(s, val.pos),
                                     LAMBDA rest :
                                         Ok(IndexMap_extend(inserted.val,
                                                            rest.val),
                                            rest.pos)))))
    ELSE Ok(<<>>, p)

\* decode_map
decode_map(additional, s, p) ==
    Try(extract_optional_number(additional, s, p),
        LAMBDA length :
            IF length.val.some
            THEN Try(decode_entries(s, length.pos, U64ToNat(length.val.num),
                                    <<>>),
                     LAMBDA fixed :
                         Ok(Map(MapContent_set_content(
                                set_indefinite(MapContent_default, FALSE),
                                fixed.val)),
                            fixed.pos))
            ELSE Try(extract_map_item(s, length.pos),
                     LAMBDA open :
                         close_indefinite(
                             s, open,
                             Map(MapContent_set_content(
                                 set_indefinite(MapContent_default, TRUE),
                                 IndexMap_extend(<<>>, open.val))),
                             "IncompleteIndefinite")))

\* decode_value that reports a missing header as a missing break
decode_value_missing_break(s, p) ==
    IF p > Len(s) THEN ErrPlain("IncompleteIndefinite")
    ELSE LET major == s[p] \div 32
             additional == s[p] % 32
         IN  CASE major = 0 ->
                    Try(extract_number(additional, s, p + 1),
                        LAMBDA number : Ok(Unsigned(number.val), number.pos))
               [] major = 1 ->
                    Try(extract_number(additional, s, p + 1),
                        LAMBDA number : Ok(Signed(number.val), number.pos))
               [] major = 2 ->
                    Try(decode_byte_or_text(major, additional, s, p + 1),
                        LAMBDA content : Ok(Byte(content.val), content.pos))
               [] major = 3 ->
                    Try(decode_byte_or_text(major, additional, s, p + 1),
                        LAMBDA content :
                            Try(TextContent_try_from(content.val),
                                LAMBDA text : Ok(Text(text.val), content.pos)))
               [] major = 4 -> decode_array(additional, s, p + 1)
               [] major = 5 -> decode_map(additional, s, p + 1)
               [] major = 6 ->
                    Try(extract_number(additional, s, p + 1),
                        LAMBDA number :
                            Try(decode_value(s, number.pos),
                                LAMBDA tag_value :
                                    Ok(Tag(number.val, tag_value.val),
                                       tag_value.pos)))
               [] major = 7 -> decode_simple_or_floating(additional, s, p + 1)
               [] OTHER -> ErrPlain("Panic")

\* decode_value
decode_value(s, p) ==
    IF p > Len(s) THEN ErrPlain("Incomplete")
    ELSE LET major == s[p] \div 32
             additional == s[p] % 32
         IN  CASE major = 0 ->
                    Try(extract_number(additional, s, p + 1),
                        LAMBDA number : Ok(Unsigned(number.val), number.pos))
               [] major = 1 ->
                    Try(extract_number(additional, s, p + 1),
                        LAMBDA number : Ok(Signed(number.val), number.pos))
               [] major = 2 ->
                    Try(decode_byte_or_text(major, additional, s, p + 1),
                        LAMBDA content : Ok(Byte(content.val), content.pos))
               [] major = 3 ->
                    Try(decode_byte_or_text(major, additional, s, p + 1),
                        LAMBDA content :
                            Try(TextContent_try_from(content.val),
                                LAMBDA text : Ok(Text(text.val), content.pos)))
               [] major = 4 -> decode_array(additional, s, p + 1)
               [] major = 5 -> decode_map(additional, s, p + 1)
               [] major = 6 ->
                    Try(extract_number(additional, s, p + 1),
                        LAMBDA number :
                            Try(decode_value(s, number.pos),
                                LAMBDA tag_value :
                                    Ok(Tag(number.val, tag_value.val),
                                       tag_value.pos)))
               [] major = 7 -> decode_simple_or_floating(additional, s, p + 1)
               [] OTHER -> ErrPlain("Panic")

\* DataItem::decode that takes bytes behind the item for an error
decode_to_the_end(val) ==
    LET decoded == decode_value(val, 1)
    IN  IF decoded.ok /\ decoded.pos <= Len(val)
        THEN Err("NotWellFormed", "trailing bytes", 0, ZeroBytes(8))
        ELSE decoded

\* DataItem::decode
decode(val) == decode_value(val, 1)

(***************************************************************************)
(* Canonicalizer.                                                          *)
(***************************************************************************)
Modes == {"Core", "LengthFirst"}

RECURSIVE cmp_bytes(_, _)
\* Ord for Vec<u8>: lexicographic, a proper prefix is less
cmp_bytes(a, b) ==
    IF a = <<>> /\ b = <<>> THEN "Equal"
    ELSE IF a = <<>> THEN "Less"
    ELSE IF b = <<>> THEN "Greater"
    ELSE IF Head(a) < Head(b) THEN "Less"
    ELSE IF Head(a) > Head(b) THEN "Greater"
    ELSE cmp_bytes(Tail(a), Tail(b))

\* the closure of is_deterministic comparing the bytes alone in both modes
keys_in_order_bytes_only(k1, k2, mode) ==
    cmp_bytes(encode(k1), encode(k2)) # "Greater"

\* the closure of is_deterministic on two adjacent keys
keys_in_order(k1, k2, mode) ==
    LET key1_encode == encode(k1)
        key2_encode == encode(k2)
    IN  IF mode = "Core"
        THEN cmp_bytes(key1_encode, key2_encode) # "Greater"
        ELSE IF Len(key1_encode) = Len(key2_encode)
        THEN cmp_bytes(key1_encode, key2_encode) # "Greater"
        ELSE Len(key1_encode) < Len(key2_encode)

RECURSIVE all_adjacent(_, _)
\* map.iter().zip(map.iter().skip(1)).all(..) of is_deterministic
all_adjacent(map, mode) ==
    IF Len(map) < 2 THEN TRUE
    ELSE IF ~keys_in_order(map[1][1], map[2][1], mode) THEN FALSE
    ELSE all_adjacent(Tail(map), mode)

RECURSIVE is_deterministic(_, _)
\* DataItem::is_deterministic
is_deterministic(item, mode) ==
    CASE item.kind = "Map" ->
            IF item.indef THEN FALSE
            ELSE all_adjacent(item.entries, mode)
      [] item.kind = "Array" ->
            IF item.indef THEN FALSE
            ELSE \A i \in 1..Len(item.items) : is_deterministic(item.items[i], mode)
      [] item.kind = "Tag" -> is_deterministic(item.content, mode)
      [] item.kind = "Byte" -> ~item.indef
      [] item.kind = "Text" -> ~item.indef
      [] OTHER -> TRUE

\* the comparator of data.sort_by with its operands exchanged
key_cmp_exchanged(k1, k2, mode) ==
    LET key1_encode == encode(k2)
        key2_encode == encode(k1)
    IN  IF mode = "Core" THEN cmp_bytes(key1_encode, key2_encode)
        ELSE IF Len(key1_encode) = Len(key2_encode)
        THEN cmp_bytes(key1_encode, key2_encode)
        ELSE IF Len(key1_encode) < Len(key2_encode) THEN "Less"
        ELSE "Greater"

\* the comparator of data.sort_by in DataItem::deterministic
key_cmp(k1, k2, mode) ==
    LET key1_encode == encode(k1)
        key2_encode == encode(k2)
    IN  IF mode = "Core" THEN cmp_bytes(key1_encode, key2_encode)
        ELSE IF Len(key1_encode) = Len(key2_encode)
        THEN cmp_bytes(key1_encode, key2_encode)
        ELSE IF Len(key1_encode) < Len(key2_encode) THEN "Less"
        ELSE "Greater"

RECURSIVE insert_sorted(_, _, _)
\* one step of the stable sort: e goes behind every entry that is not greater
insert_sorted(sorted, e, mode) ==
    IF sorted = <<>> THEN <<e>>
    ELSE IF key_cmp(Head(sorted)[1], e[1], mode) = "Greater"
    THEN <<e>> \o sorted
    ELSE <<Head(sorted)>> \o insert_sorted(Tail(sorted), e, mode)

RECURSIVE sort_by(_, _, _)
\* <[T]>::sort_by, a stable sort: entries that compare equal keep their order
sort_by(data, n, mode) ==
    IF n = 0 THEN <<>>
    ELSE insert_sorted(sort_by(data, n - 1, mode), data[n], mode)

\* ByteContent::push_bytes and TextContent::push_string: append one chunk
push_bytes(content, byte) == [content EXCEPT !.chunks = Append(@, byte)]

RECURSIVE deterministic(_, _)
\* DataItem::deterministic that leaves the values of a map as they are
deterministic_values_untouched(item, mode) ==
    CASE item.kind = "Map" ->
            LET data == [i \in 1..Len(item.entries) |->
                            << deterministic(item.entries[i][1], mode),
                               item.entries[i][2] >>]
                sorted == sort_by(data, Len(data), mode)
                index_map == IndexMap_extend(<<>>, sorted)
            IN  Map(MapContent_set_content(
                        set_indefinite(MapContent_default, FALSE), index_map))
      [] item.kind = "Array" ->
            Array(ArrayContent_set_content(
                      set_indefinite(ArrayContent_default, FALSE),
                      [i \in 1..Len(item.items) |->
                          deterministic(item.items[i], mode)]))
      [] item.kind = "Tag" -> Tag(item.tag, deterministic(item.content, mode))
      [] item.kind = "Byte" ->
            IF item.indef
            THEN Byte(push_bytes(set_indefinite(ByteContent_default, FALSE),
                                 full(item)))
            ELSE item
      [] item.kind = "Text" ->
            IF item.indef
            THEN Text(push_bytes(set_indefinite(ByteContent_default, FALSE),
                                 full(item)))
            ELSE item
      [] OTHER -> item

\* DataItem::deterministic
deterministic(item, mode) ==
    CASE item.kind = "Map" ->
            LET data == [i \in 1..Len(item.entries) |->
                            << deterministic(item.entries[i][1], mode),
                               deterministic(item.entries[i][2], mode) >>]
                sorted == sort_by(data, Len(data), mode)
                index_map == IndexMap_extend(<<>>, sorted)
            IN  Map(MapContent_set_content(
                        set_indefinite(MapContent_default, FALSE), index_map))
      [] item.kind = "Array" ->
            Array(ArrayContent_set_content(
                      set_indefinite(ArrayContent_default, FALSE),
                      [i \in 1..Len(item.items) |->
                          deterministic(item.items[i], mode)]))
      [] item.kind = "Tag" -> Tag(item.tag, deterministic(item.content, mode))
      [] item.kind = "Byte" ->
            IF item.indef
            THEN Byte(push_bytes(set_indefinite(ByteContent_default, FALSE),
                                 full(item)))
            ELSE item
      [] item.kind = "Text" ->
            IF item.indef
            THEN Text(push_bytes(set_indefinite(ByteContent_default, FALSE),
                                 full(item)))
            ELSE item
      [] OTHER -> item

(***************************************************************************)
(* The state machine.  A session either reads input bytes and decodes them *)
(* (Spec), or builds a DataItem with the constructors and applies the      *)
(* operations to it (SpecValue).                                           *)
(***************************************************************************)
VARIABLES
    input,      \* the bytes handed to DataItem::decode
    item,       \* the DataItem built so far
    op,         \* the operation applied last, "none" while building
    res,        \* what that operation returned
    out         \* the bytes DataItem::encode returned last

vars == <<input, item, op, res, out>>

NoRes == [ok |-> FALSE, err |-> "none"]

NoItem == [kind |-> "none"]

(***************************************************************************)
(* Building values.                                                        *)
(***************************************************************************)
MaxNodes == 5

NaN == <<127, 248, 0, 0, 0, 0, 0, 0>>

\* the scalars and byte strings a session starts from
Leaves ==
    { Unsigned(NatToU64(0)),
      Unsigned(NatToU64(24)),
      Byte(set_bytes(ByteContent_default, <<1>>)),
      Byte(set_indefinite(set_bytes(ByteContent_default, <<1>>), TRUE)),
      Byte(ByteContent_default),
      Text(set_indefinite(add_bytes(set_bytes(ByteContent_default, <<97>>),
                                    <<98>>), TRUE)),
      Floating(NaN) }

RECURSIVE NodeCount(_)
RECURSIVE NodeSum(_)
NodeSum(items) ==
    IF items = <<>> THEN 0 ELSE NodeCount(Head(items)) + NodeSum(Tail(items))

\* the number of DataItems in a tree
NodeCount(v) ==
    CASE v.kind = "Array" -> 1 + NodeSum(v.items)
      [] v.kind = "Map" ->
            1 + NodeSum([i \in 1..Len(v.entries) |-> v.entries[i][1]])
              + NodeSum([i \in 1..Len(v.entries) |-> v.entries[i][2]])
      [] v.kind = "Tag" -> 1 + NodeCount(v.content)
      [] OTHER -> 1

Building == op = "none"

\* From<T> for DataItem on a scalar or a byte content, ArrayContent::default
\* and MapContent::default
New(leaf) ==
    /\ Building
    /\ item = NoItem
    /\ item' = leaf
    /\ UNCHANGED <<input, op, res, out>>

\* From<Vec<DataItem>> for DataItem on the item
IntoArray ==
    /\ Building
    /\ item # NoItem
    /\ NodeCount(item) < MaxNodes
    /\ item' = Array(ArrayContent_set_content(ArrayContent_default, <<item>>))
    /\ UNCHANGED <<input, op, res, out>>

\* TagContent::from((number, item))
IntoTag(number) ==
    /\ Building
    /\ item # NoItem
    /\ NodeCount(item) < MaxNodes
    /\ item' = Tag(NatToU64(number), item)
    /\ UNCHANGED <<input, op, res, out>>

\* From<IndexMap> for DataItem on the one entry (item, leaf) or (leaf, item)
IntoMap(leaf, as_key) ==
    /\ Building
    /\ item # NoItem
    /\ NodeCount(item) + 1 < MaxNodes
    /\ item' = Map(MapContent_set_content(
                       MapContent_default,
                       IndexMap_insert(<<>>,
                                       IF as_key THEN item ELSE leaf,
                                       IF as_key THEN leaf ELSE item).map))
    /\ UNCHANGED <<input, op, res, out>>

\* one more element behind the elements of the array
PushElement(leaf) ==
    /\ Building
    /\ item.kind = "Array"
    /\ NodeCount(item) < MaxNodes
    /\ item' = Array(ArrayContent_set_content(item, Append(item.items, leaf)))
    /\ UNCHANGED <<input, op, res, out>>

\* map_mut().insert(key, value)
InsertEntry(key, value) ==
    /\ Building
    /\ item.kind = "Map"
    /\ NodeCount(item) + 1 < MaxNodes
    /\ item' = Map(MapContent_set_content(
                       item, IndexMap_insert(item.entries, key, value).map))
    /\ UNCHANGED <<input, op, res, out>>

\* ArrayContent::set_indefinite and MapContent::set_indefinite
SetIndefinite(indefinite) ==
    /\ Building
    /\ item.kind \in {"Array", "Map"}
    /\ item' = set_indefinite(item, indefinite)
    /\ UNCHANGED <<input, op, res, out>>

\* v.deterministic(mode)
Canonicalize(mode) ==
    /\ Building
    /\ item # NoItem
    /\ op' = "deterministic"
    /\ res' = [mode |-> mode, val |-> deterministic(item, mode)]
    /\ UNCHANGED <<input, item, out>>

\* v.is_deterministic(mode)
CheckDeterministic(mode) ==
    /\ Building
    /\ item # NoItem
    /\ op' = "is_deterministic"
    /\ res' = [mode |-> mode, val |-> is_deterministic(item, mode)]
    /\ UNCHANGED <<input, item, out>>

\* v.encode()
EncodeValue ==
    /\ Building
    /\ item # NoItem
    /\ op' = "encode"
    /\ out' = encode(item)
    /\ UNCHANGED <<input, item, res>>

\* DataItem::decode on the bytes encode returned
DecodeEncoded ==
    /\ op = "encode"
    /\ item # NoItem
    /\ op' = "decode"
    /\ res' = decode(out)
    /\ UNCHANGED <<input, item, out>>

InitValue ==
    /\ input = <<>>
    /\ item = NoItem
    /\ op = "none"
    /\ res = NoRes
    /\ out = <<>>

Starts == Leaves \cup {Array(ArrayContent_default), Map(MapContent_default)}

NextValue ==
    \/ \E leaf \in Starts : New(leaf)
    \/ IntoArray
    \/ IntoTag(0)
    \/ \E leaf \in Leaves, as_key \in BOOLEAN : IntoMap(leaf, as_key)
    \/ \E leaf \in Leaves : PushElement(leaf)
    \/ \E key \in Leaves, value \in Leaves : InsertEntry(key, value)
    \/ \E indefinite \in BOOLEAN : SetIndefinite(indefinite)
    \/ \E mode \in Modes : Canonicalize(mode)
    \/ \E mode \in Modes : CheckDeterministic(mode)
    \/ EncodeValue
    \/ DecodeEncoded

SpecValue == InitValue /\ [][NextValue]_vars

(***************************************************************************)
(* Decoding input.  The bytes of one input come from one of a few small    *)
(* alphabets, each holding the headers and payload bytes of one part of    *)
(* the format.                                                             *)
(***************************************************************************)
\* 00 01 a1 a2 bf ff: integers, maps of one and two entries, the open map
FamMap == {0, 1, 161, 162, 191, 255}

\* 00 18 81 9f c0 ff: integers and their one-byte argument, arrays, a tag
FamSeq == {0, 24, 129, 159, 192, 255}

\* 00 41 5f 61 7f ff: byte and text strings of one byte, their open forms
FamStr == {0, 65, 95, 97, 127, 255}

\* 00 3c 7e f8 f9 fa: simple values, half and single precision floats
FamFloat == {0, 60, 126, 248, 249, 250}

\* 61 62 7f a9 c3 ff: text strings of one and two bytes, the open text
\* string, and the two bytes c3 a9 of one character
FamText == {97, 98, 127, 169, 195, 255}

\* 40 5f 60 61 7f ff: the empty byte and text string, also as chunks
FamEmpty == {64, 95, 96, 97, 127, 255}

Families == {FamMap, FamSeq, FamStr, FamFloat, FamText, FamEmpty}

\* one more byte of the input
Feed(b) ==
    /\ Building
    /\ Len(input) < MaxLen
    /\ \E fam \in Families :
          b \in fam /\ \A i \in 1..Len(input) : input[i] \in fam
    /\ input' = Append(input, b)
    /\ UNCHANGED <<item, op, res, out>>

\* DataItem::decode(input)
DecodeInput ==
    /\ Building
    /\ item = NoItem
    /\ op' = "decode"
    /\ res' = decode(input)
    /\ UNCHANGED <<input, item, out>>

\* encode() on the value decode returned
EncodeDecoded ==
    /\ op = "decode"
    /\ item = NoItem
    /\ res.ok
    /\ op' = "encode"
    /\ out' = encode(res.val)
    /\ UNCHANGED <<input, item, res>>

Init ==
    /\ input = <<>>
    /\ item = NoItem
    /\ op = "none"
    /\ res = NoRes
    /\ out = <<>>

Next ==
    \/ \E b \in UNION Families : Feed(b)
    \/ DecodeInput
    \/ EncodeDecoded

Spec == Init /\ [][Next]_vars

(***************************************************************************)
(* Short inputs over wide alphabets: every header of one kind, and a few   *)
(* headers to nest it in.                                                  *)
(***************************************************************************)
MaxShort == 3

\* 00 81 9f a1 bf c0: an integer, and an array, a map and a tag to nest in
Nesting == {0, 129, 159, 161, 191, 192}

\* the headers of every major type with additional information 28, 29, 30
FamReserved == Nesting \cup {m * 32 + ai : m \in 0..7, ai \in 28..30}

\* headers with an argument of 1, 2, 4 or 8 bytes behind them, of integers
\* (18 19 1a 1b 39), strings (42 58 59 62 78, open 5f 7f), containers (81 98
\* b8 da) and major type 7 (f8 f9 fa fb), and the bytes 00 and ff
FamTruncated ==
    {0, 24, 25, 26, 27, 57, 66, 88, 89, 95, 98, 120, 127, 129, 152, 184, 218,
     248, 249, 250, 251, 255}

\* the open strings 5f 7f, a header of every major type to stand as a chunk
\* (00 20 40 41 60 61 80 a0 c0 e0 f4), the open array and map 9f bf, and ff
FamChunk ==
    {0, 32, 64, 65, 95, 96, 97, 127, 128, 159, 160, 191, 192, 224, 244, 255}

ShortFamilies == {FamReserved, FamTruncated, FamChunk}

\* one more byte of a short input
FeedShort(b) ==
    /\ Building
    /\ Len(input) < MaxShort
    /\ \E fam \in ShortFamilies :
          b \in fam /\ \A i \in 1..Len(input) : input[i] \in fam
    /\ input' = Append(input, b)
    /\ UNCHANGED <<item, op, res, out>>

NextShort ==
    \/ \E b \in UNION ShortFamilies : FeedShort(b)
    \/ DecodeInput

SpecShort == Init /\ [][NextShort]_vars
(***************************************************************************)
(* Scalars.  A session makes one scalar, or one string, array or map of a  *)
(* given length, and reads it back, encodes it and decodes the encoding;   *)
(* or it asks SimpleValue::try_from for a number, or decodes the bytes of  *)
(* one simple value.                                                       *)
(***************************************************************************)
\* the numbers at the ends of the five argument widths
Numbers ==
    { NatToU64(0), NatToU64(23), NatToU64(24), NatToU64(255), NatToU64(256),
      NatToU64(65535), NatToU64(65536), <<0, 0, 0, 0, 255, 255, 255, 255>>,
      <<0, 0, 0, 1, 0, 0, 0, 0>>, U64Max }

\* the lengths of byte strings at the ends of the first three argument
\* widths, and the lengths of text strings and the numbers of elements and
\* entries at the ends of the first two
Lengths == {0, 23, 24, 255, 256}
Counts == {0, 23, 24}

\* a map of len entries with the keys 1..len
Counted(len) == [i \in 1..len |-> <<Unsigned(NatToU64(i)), Null>>]

\* 0.0 -0.0 1.0 1.5 -4.0 65504.0, 2^-14, 2^-24 and the two infinities
\* (half); 100000.0, f32::MAX, 65505.0, 1.5 * 2^-24, 2^-149 (single); 1.1,
\* -4.1, 1.0e300, 1 + 2^-24, 2^-150 (double); f64::NAN, -f64::NAN and a NaN
\* with a payload in its lowest bit
Floats ==
    { <<0, 0, 0, 0, 0, 0, 0, 0>>, <<128, 0, 0, 0, 0, 0, 0, 0>>,
      <<63, 240, 0, 0, 0, 0, 0, 0>>, <<63, 248, 0, 0, 0, 0, 0, 0>>,
      <<192, 16, 0, 0, 0, 0, 0, 0>>, <<64, 239, 252, 0, 0, 0, 0, 0>>,
      <<63, 16, 0, 0, 0, 0, 0, 0>>, <<62, 112, 0, 0, 0, 0, 0, 0>>,
      <<127, 240, 0, 0, 0, 0, 0, 0>>, <<255, 240, 0, 0, 0, 0, 0, 0>>,
      <<64, 248, 106, 0, 0, 0, 0, 0>>, <<71, 239, 255, 255, 224, 0, 0, 0>>,
      <<64, 239, 252, 32, 0, 0, 0, 0>>, <<62, 120, 0, 0, 0, 0, 0, 0>>,
      <<54, 160, 0, 0, 0, 0, 0, 0>>,
      <<63, 241, 153, 153, 153, 153, 153, 154>>,
      <<192, 16, 102, 102, 102, 102, 102, 102>>,
      <<126, 55, 228, 60, 136, 0, 117, 156>>, <<63, 240, 0, 0, 16, 0, 0, 0>>,
      <<54, 144, 0, 0, 0, 0, 0, 0>>,
      NaN, <<255, 248, 0, 0, 0, 0, 0, 0>>, <<127, 240, 0, 0, 0, 0, 0, 1>> }

\* the simple values with a variant of their own
Simples == {Boolean(FALSE), Boolean(TRUE), Null, Undefined}

\* strings, arrays and maps in indefinite-length form, empty and not
Opens ==
    { Byte(set_indefinite(ByteContent_default, TRUE)),
      Byte(set_indefinite(set_bytes(ByteContent_default, <<1>>), TRUE)),
      Text(set_indefinite(ByteContent_default, TRUE)),
      Text(set_indefinite(set_bytes(ByteContent_default, <<97>>), TRUE)),
      Array(set_indefinite(ArrayContent_default, TRUE)),
      Array(ArrayContent_set_content(
                set_indefinite(ArrayContent_default, TRUE), <<Null>>)),
      Map(set_indefinite(MapContent_default, TRUE)),
      Map(MapContent_set_content(
              set_indefinite(MapContent_default, TRUE), Counted(1))) }

Scalars ==
    {Unsigned(n) : n \in Numbers}
    \cup Simples
    \cup Opens
    \cup {Floating(x) : x \in Floats}
    \cup {Signed(n) : n \in Numbers}
    \cup {Tag(n, Null) : n \in Numbers}
    \cup {Byte(set_bytes(ByteContent_default, [i \in 1..len |-> 0])) :
            len \in Lengths}
    \cup {Text(set_bytes(ByteContent_default, [i \in 1..len |-> 97])) :
            len \in Counts}
    \cup {Array(ArrayContent_set_content(ArrayContent_default,
                                         [i \in 1..len |-> Null])) :
            len \in Counts}
    \cup {Map(MapContent_set_content(MapContent_default, Counted(len))) :
            len \in Counts}

\* i64::MIN, i64::MIN + 1, -257, -256, -25, -24, -1, 0, 1, 24, i64::MAX
I64Values ==
    { I64Min, <<128, 0, 0, 0, 0, 0, 0, 1>>,
      <<255, 255, 255, 255, 255, 255, 254, 255>>,
      <<255, 255, 255, 255, 255, 255, 255, 0>>,
      <<255, 255, 255, 255, 255, 255, 255, 231>>,
      <<255, 255, 255, 255, 255, 255, 255, 232>>,
      U64Max, NatToU64(0), NatToU64(1), NatToU64(24),
      <<127, 255, 255, 255, 255, 255, 255, 255>> }

\* the encodings of one simple value: e0..ff, and f8 with every second byte
SimpleInputs == {<<224 + ai>> : ai \in 0..31} \cup {<<248, x>> : x \in 0..255}

\* DataItem::from(value) for an i64; the session remembers the argument
FromI64(value, overflow_checks) ==
    /\ Building
    /\ item = NoItem
    /\ res = NoRes
    /\ LET made == DataItem_from_i64(value, overflow_checks)
       IN  /\ item' = IF made.panic THEN NoItem ELSE made.val
           /\ op' = IF made.panic THEN "panic" ELSE "none"
    /\ res' = [arg |-> value]
    /\ UNCHANGED <<input, out>>

\* v.as_signed()
AsSigned(overflow_checks) ==
    /\ Building
    /\ item # NoItem
    /\ op' = "as_signed"
    /\ res' = [of |-> res, ret |-> as_signed(item, overflow_checks)]
    /\ UNCHANGED <<input, item, out>>

\* v.as_number()
AsNumber(overflow_checks) ==
    /\ Building
    /\ item # NoItem
    /\ op' = "as_number"
    /\ res' = [of |-> res, ret |-> as_number(item, overflow_checks)]
    /\ UNCHANGED <<input, item, out>>

\* SimpleValue::try_from(value)
SimpleTryFrom(value) ==
    /\ Building
    /\ item = NoItem
    /\ res = NoRes
    /\ op' = "try_from"
    /\ res' = [arg |-> value, ret |-> SimpleValue_try_from(value)]
    /\ UNCHANGED <<input, item, out>>

\* DataItem::from(simple_value) on the SimpleValue try_from returned
FromSimple ==
    /\ op = "try_from"
    /\ res.ret.ok
    /\ item' = GenericSimple(res.ret.val)
    /\ op' = "none"
    /\ res' = NoRes
    /\ UNCHANGED <<input, out>>

\* DataItem::decode on the bytes of one simple value
DecodeSimple(bytes) ==
    /\ Building
    /\ item = NoItem
    /\ res = NoRes
    /\ input' = bytes
    /\ op' = "decode"
    /\ res' = decode(bytes)
    /\ UNCHANGED <<item, out>>

NextScalar ==
    \/ \E leaf \in Scalars : New(leaf)
    \/ \E value \in I64Values, overflow_checks \in BOOLEAN :
          FromI64(value, overflow_checks)
    \/ \E overflow_checks \in BOOLEAN : AsSigned(overflow_checks)
    \/ \E overflow_checks \in BOOLEAN : AsNumber(overflow_checks)
    \/ \E value \in 0..255 : SimpleTryFrom(value)
    \/ FromSimple
    \/ \E bytes \in SimpleInputs : DecodeSimple(bytes)
    \/ EncodeValue
    \/ DecodeEncoded

SpecScalar == Init /\ [][NextScalar]_vars

(***************************************************************************)
(* Tagged values.  A session makes one item, wraps it in tags and asks     *)
(* check_inner or as_inner for what is inside.                             *)
(***************************************************************************)
\* the items to wrap: one of each kind the checkers and extractors tell
\* apart, and some they do not
Inner ==
    { Unsigned(NatToU64(0)), Unsigned(NatToU64(24)), Signed(NatToU64(20)),
      Byte(set_bytes(ByteContent_default, <<1>>)),
      Byte(set_indefinite(add_bytes(set_bytes(ByteContent_default, <<1>>),
                                    <<2>>), TRUE)),
      Text(set_bytes(ByteContent_default, <<97>>)),
      Array(ArrayContent_default), Map(MapContent_default),
      Boolean(FALSE), Boolean(TRUE), Null, Undefined,
      Floating(NaN), GenericSimple(32) }

\* the tag numbers of a session
TagNumbers == {0, 20, 30}

\* v.check_inner(checker)
CheckInner(checker) ==
    /\ Building
    /\ item # NoItem
    /\ op' = "check_inner"
    /\ res' = [checker |-> checker, ret |-> check_inner(item, checker)]
    /\ UNCHANGED <<input, item, out>>

\* v.as_inner(extractor)
AsInner(extractor) ==
    /\ Building
    /\ item # NoItem
    /\ op' = "as_inner"
    /\ res' = [extractor |-> extractor, ret |-> as_inner(item, extractor)]
    /\ UNCHANGED <<input, item, out>>

NextInner ==
    \/ \E leaf \in Inner : New(leaf)
    \/ \E number \in TagNumbers : IntoTag(number)
    \/ \E checker \in Checkers : CheckInner(checker)
    \/ \E extractor \in Extractors : AsInner(extractor)

SpecInner == Init /\ [][NextInner]_vars

(***************************************************************************)
(* Contents.  A session makes a ByteContent or a TextContent and applies   *)
(* the content operations to it, one after the other; res remembers the    *)
(* content before the last operation.                                      *)
(***************************************************************************)
MaxChunks == 3

\* the byte slices and the strings ("", "a", "ab") handed to the operations
Slices == {<<>>, <<97>>, <<97, 98>>}

\* ByteContent::default(), TextContent::default()
ContentDefault(kind) ==
    /\ op = "none"
    /\ item = NoItem
    /\ item' = [kind |-> kind] @@ ByteContent_default
    /\ op' = "default"
    /\ res' = [before |-> NoItem]
    /\ UNCHANGED <<input, out>>

\* ByteContent::from(value), TextContent::from(value)
ContentFrom(kind, value) ==
    /\ op = "none"
    /\ item = NoItem
    /\ item' = [kind |-> kind] @@ ByteContent_from(value)
    /\ op' = "from"
    /\ res' = [before |-> NoItem]
    /\ UNCHANGED <<input, out>>

\* the content is there for another operation
Content == item # NoItem /\ "before" \in DOMAIN res

\* content.set_indefinite(indefinite)
ContentSetIndefinite(indefinite) ==
    /\ Content
    /\ item' = set_indefinite(item, indefinite)
    /\ op' = "set_indefinite"
    /\ res' = [before |-> item]
    /\ UNCHANGED <<input, out>>

\* content.set_bytes(byte), content.set_string(string)
ContentSetBytes(byte) ==
    /\ Content
    /\ item' = set_bytes(item, byte)
    /\ op' = "set_bytes"
    /\ res' = [before |-> item]
    /\ UNCHANGED <<input, out>>

\* content.add_bytes(byte), content.add_string(string)
ContentAddBytes(byte) ==
    /\ Content
    /\ Len(chunk(item)) < MaxChunks
    /\ item' = add_bytes(item, byte)
    /\ op' = "add_bytes"
    /\ res' = [before |-> item]
    /\ UNCHANGED <<input, out>>

\* content.extend_bytes(byte) with no, one or two chunks; a TextContent has
\* no such operation
ContentExtendBytes(byte) ==
    /\ Content
    /\ item.kind = "Byte"
    /\ Len(chunk(item)) + Len(byte) <= MaxChunks
    /\ item' = extend_bytes(item, byte)
    /\ op' = "extend_bytes"
    /\ res' = [before |-> item]
    /\ UNCHANGED <<input, out>>

NextContent ==
    \/ \E kind \in {"Byte", "Text"} : ContentDefault(kind)
    \/ \E kind \in {"Byte", "Text"}, value \in Slices : ContentFrom(kind, value)
    \/ \E indefinite \in BOOLEAN : ContentSetIndefinite(indefinite)
    \/ \E byte \in Slices : ContentSetBytes(byte)
    \/ \E byte \in Slices : ContentAddBytes(byte)
    \/ \E byte \in UNION {[1..k -> Slices] : k \in 0..2} :
          ContentExtendBytes(byte)

SpecContent == Init /\ [][NextContent]_vars

(***************************************************************************)
(* Two values.  A session builds a DataItem, keeps it, builds another and  *)
(* compares and hashes the two, asks a map that holds the second as its    *)
(* key for the first, and decodes a map with both of them as keys.         *)
(***************************************************************************)
\* 0, 0.0 and -0.0
HashLeaves ==
    { Unsigned(NatToU64(0)),
      Floating(<<0, 0, 0, 0, 0, 0, 0, 0>>),
      Floating(<<128, 0, 0, 0, 0, 0, 0, 0>>) }

\* the first value is done
Keep ==
    /\ Building
    /\ item # NoItem
    /\ res = NoRes
    /\ res' = [kept |-> item]
    /\ item' = NoItem
    /\ UNCHANGED <<input, op, out>>

\* a2 <key1> f6 <key2> f6: the map {key1: null, key2: null} on the wire
TwoKeys(key1, key2) ==
    <<162>> \o encode(key1) \o <<246>> \o encode(key2) \o <<246>>

\* kept == item, their hashes, {item: null}.get(kept), and decode of the
\* map with both as keys
HashBoth ==
    /\ Building
    /\ item # NoItem
    /\ "kept" \in DOMAIN res
    /\ op' = "hash"
    /\ res' = [kept |-> res.kept,
               eq |-> DataItemEq(res.kept, item),
               hashes |-> <<hash(res.kept), hash(item)>>,
               found |-> get(Map(MapContent_set_content(
                                     MapContent_default,
                                     IndexMap_insert(<<>>, item, Null).map)),
                             res.kept),
               twice |-> decode(TwoKeys(res.kept, item))]
    /\ UNCHANGED <<input, item, out>>

NextHash ==
    \/ \E leaf \in HashLeaves : New(leaf)
    \/ IntoTag(0)
    \/ \E leaf \in HashLeaves, as_key \in BOOLEAN : IntoMap(leaf, as_key)
    \/ \E key \in HashLeaves, value \in HashLeaves : InsertEntry(key, value)
    \/ Keep
    \/ HashBoth

SpecHash == Init /\ [][NextHash]_vars

(***************************************************************************)
(* The wire format as RFC 8949 defines it, read off the bytes without the  *)
(* decoder: the properties below are stated against it.  A scan of an item *)
(* ends "ok" with the index after the item, or it stops and says why:      *)
(*   "malformed"  the bytes read so far are no beginning of an item,       *)
(*   "header"     the input ends where the header of a required item is    *)
(*                expected,                                                *)
(*   "inside"     the input ends inside an argument or a string payload,   *)
(*   "boundary"   the input ends where an indefinite-length item expects   *)
(*                its next chunk, element or key, or its break,            *)
(*   "break"      the byte 0xFF stands where a required item is expected.  *)
(*   "reserved"   the header of a required item has the additional         *)
(*                information 28, 29 or 30.                                *)
(*   "chunktype"  a chunk of an indefinite-length string has another major *)
(*                type than the string,                                    *)
(*   "chunkopen"  a chunk of an indefinite-length string is itself of      *)
(*                indefinite length.                                       *)
(* The level "wf" asks for well-formedness alone; "valid" also asks that   *)
(* every text chunk is UTF-8 and that no map repeats a key; "preferred"    *)
(* also asks for the shortest argument and the shortest float.             *)
(***************************************************************************)
ScanOk(p) == [st |-> "ok", pos |-> p]

ScanStop(why) == [st |-> why, pos |-> 0]

\* a chunk header of major type `found` in a string of major type `expected`
ScanChunkType(found, expected) ==
    [st |-> "chunktype", pos |-> 0, found |-> found, expected |-> expected]

\* the input ends inside a field of `required` bytes (a u64) of which
\* `available` are there
ScanInside(required, available) ==
    [st |-> "inside", pos |-> 0, missing |-> U64SubNat(required, available)]

\* the bytes an argument takes behind a header with this additional information
ArgWidth(ai) == IF ai \in 24..27 THEN Pow2(ai - 24) ELSE 0

\* the argument of the header at p, as a u64
ArgOf(s, p) ==
    LET ai == s[p] % 32
    IN  IF ai < 24 THEN NatToU64(ai)
        ELSE ZeroBytes(8 - ArgWidth(ai)) \o SubSeq(s, p + 1, p + ArgWidth(ai))

\* no narrower header holds the argument
ShortestArg(ai, arg) ==
    CASE ai < 24 -> TRUE
      [] ai = 24 -> arg[8] >= 24
      [] ai = 25 -> arg[7] # 0
      [] ai = 26 -> arg[5] # 0 \/ arg[6] # 0
      [] OTHER -> SubSeq(arg, 1, 4) # ZeroBytes(4)

\* the f64 a float of this width stands for
FloatOf(ai, arg) ==
    CASE ai = 25 -> F16ToF64(arg[7] * 256 + arg[8])
      [] ai = 26 -> F32ToF64(SubSeq(arg, 5, 8))
      [] OTHER -> arg

\* the float is in the width encode writes its value in
ShortestFloat(ai, arg) ==
    Len(encode_f64_number(7, FloatOf(ai, arg))) = 1 + ArgWidth(ai)

\* the key is == to a key read earlier in the same map
KeySeen(seen, key) ==
    \E i \in 1..Len(seen) :
        /\ decode(seen[i]).ok
        /\ decode(key).ok
        /\ KeyMatch(decode(seen[i]).val, decode(key).val)

RECURSIVE WireItem(_, _, _)
RECURSIVE WireChunks(_, _, _, _)
RECURSIVE WireItems(_, _, _, _)
RECURSIVE WireOpenItems(_, _, _)
RECURSIVE WireEntries(_, _, _, _, _)
RECURSIVE WireOpenEntries(_, _, _, _)

\* the chunks of an indefinite-length string of major type mt, and its break
WireChunks(s, p, mt, level) ==
    IF p > Len(s) THEN ScanStop("boundary")
    ELSE IF s[p] = 255 THEN ScanOk(p + 1)
    ELSE LET ai == s[p] % 32
             w == ArgWidth(ai)
             n == U64ToNat(ArgOf(s, p))
         IN  IF s[p] \div 32 # mt THEN ScanChunkType(s[p] \div 32, mt)
             ELSE IF ai = 31 THEN ScanStop("chunkopen")
             ELSE IF ai > 27 THEN ScanStop("malformed")
             ELSE IF p + w > Len(s) THEN ScanInside(NatToU64(w), Len(s) - p)
             ELSE IF level = "preferred" /\ ~ShortestArg(ai, ArgOf(s, p))
             THEN ScanStop("malformed")
             ELSE IF n > Len(s) - (p + w)
             THEN ScanInside(ArgOf(s, p), Len(s) - (p + w))
             ELSE IF /\ level # "wf"
                     /\ mt = 3
                     /\ ~ValidUtf8(SubSeq(s, p + w + 1, p + w + n))
             THEN ScanStop("malformed")
             ELSE WireChunks(s, p + w + n + 1, mt, level)

\* n items
WireItems(s, p, n, level) ==
    IF n = 0 THEN ScanOk(p)
    ELSE LET first == WireItem(s, p, level)
         IN  IF first.st # "ok" THEN first
             ELSE WireItems(s, first.pos, n - 1, level)

\* the items of an indefinite-length array, and its break
WireOpenItems(s, p, level) ==
    IF p > Len(s) THEN ScanStop("boundary")
    ELSE IF s[p] = 255 THEN ScanOk(p + 1)
    ELSE LET first == WireItem(s, p, level)
         IN  IF first.st # "ok" THEN first
             ELSE WireOpenItems(s, first.pos, level)

\* n entries of a map; seen holds the keys of the entries before them
WireEntries(s, p, n, level, seen) ==
    IF n = 0 THEN ScanOk(p)
    ELSE LET key == WireItem(s, p, level)
             val == WireItem(s, key.pos, level)
             bytes == SubSeq(s, p, key.pos - 1)
         IN  IF key.st # "ok" THEN key
             ELSE IF val.st # "ok" THEN val
             ELSE IF level # "wf" /\ KeySeen(seen, bytes)
             THEN ScanStop("malformed")
             ELSE WireEntries(s, val.pos, n - 1, level, Append(seen, bytes))

\* the entries of an indefinite-length map, and its break
WireOpenEntries(s, p, level, seen) ==
    IF p > Len(s) THEN ScanStop("boundary")
    ELSE IF s[p] = 255 THEN ScanOk(p + 1)
    ELSE LET key == WireItem(s, p, level)
             val == WireItem(s, key.pos, level)
             bytes == SubSeq(s, p, key.pos - 1)
         IN  IF key.st # "ok" THEN key
             ELSE IF val.st # "ok" THEN val
             ELSE IF level # "wf" /\ KeySeen(seen, bytes)
             THEN ScanStop("malformed")
             ELSE WireOpenEntries(s, val.pos, level, Append(seen, bytes))

\* one data item from index p on
WireItem(s, p, level) ==
    IF p > Len(s) THEN ScanStop("header")
    ELSE IF s[p] = 255 THEN ScanStop("break")
    ELSE LET mt == s[p] \div 32
             ai == s[p] % 32
             w == ArgWidth(ai)
             arg == ArgOf(s, p)
             n == U64ToNat(arg)
             after == p + w + 1
         IN  IF ai \in 28..30 THEN ScanStop("reserved")
             ELSE IF ai = 31
             THEN CASE mt \in {2, 3} -> WireChunks(s, p + 1, mt, level)
                    [] mt = 4 -> WireOpenItems(s, p + 1, level)
                    [] mt = 5 -> WireOpenEntries(s, p + 1, level, <<>>)
                    [] OTHER -> ScanStop("malformed")
             ELSE IF p + w > Len(s) THEN ScanInside(NatToU64(w), Len(s) - p)
             ELSE IF level = "preferred" /\ mt # 7 /\ ~ShortestArg(ai, arg)
             THEN ScanStop("malformed")
             ELSE CASE mt \in {0, 1} -> ScanOk(after)
                    [] mt \in {2, 3} ->
                         IF n > Len(s) - (p + w)
                         THEN ScanInside(arg, Len(s) - (p + w))
                         ELSE IF /\ level # "wf"
                                 /\ mt = 3
                                 /\ ~ValidUtf8(SubSeq(s, after, p + w + n))
                         THEN ScanStop("malformed")
                         ELSE ScanOk(after + n)
                    [] mt = 4 -> WireItems(s, after, n, level)
                    [] mt = 5 -> WireEntries(s, after, n, level, <<>>)
                    [] mt = 6 -> WireItem(s, after, level)
                    [] OTHER ->
                         IF ai < 24 THEN ScanOk(after)
                         ELSE IF ai = 24
                         THEN IF arg[8] < 32 THEN ScanStop("malformed")
                              ELSE ScanOk(after)
                         ELSE IF level = "preferred" /\ ~ShortestFloat(ai, arg)
                         THEN ScanStop("malformed")
                         ELSE ScanOk(after)

\* how the scan of the whole input as one item ends
Wire(s, level) ==
    LET scan == WireItem(s, 1, level)
    IN  IF scan.st = "ok" /\ scan.pos # Len(s) + 1 THEN "trailing" ELSE scan.st
(***************************************************************************)
(* Properties of decoding and re-encoding (under Spec).                    *)
(***************************************************************************)
Decoded == op \in {"decode", "encode"} /\ item = NoItem

\* C1, as stated: every well-formed input of one data item, whatever the
\* widths of its arguments, decodes to a value, and that value encodes to the
\* input byte for byte (the input is taken to be valid too: text that is no
\* UTF-8 and repeated map keys are left to the claims about them)
ByteRoundTrip ==
    (Decoded /\ Wire(input, "valid") = "ok")
        => (res.ok /\ (op = "encode" => out = input))

\* C1, amended: an input of one data item in the preferred form (shortest
\* arguments, shortest floats, UTF-8 text chunks, no repeated map key)
\* decodes to a value, and that value encodes to the input byte for byte
PreferredRoundTrip ==
    (Decoded /\ Wire(input, "preferred") = "ok")
        => (res.ok /\ (op = "encode" => out = input))

\* an open map of two entries came back from encode as it went into decode
PreferredRoundTripReached ==
    /\ op = "encode"
    /\ item = NoItem
    /\ Wire(input, "preferred") = "ok"
    /\ input[1] = 191
    /\ Len(input) = 6
    /\ out = input

RECURSIVE WireKeys(_, _, _)
\* the keys, as bytes, of up to n entries from index p on
WireKeys(s, p, n) ==
    IF n = 0 \/ p > Len(s) \/ s[p] = 255 THEN <<>>
    ELSE LET key == WireItem(s, p, "wf")
             val == WireItem(s, key.pos, "wf")
         IN  IF key.st # "ok" \/ val.st # "ok" THEN <<>>
             ELSE <<SubSeq(s, p, key.pos - 1)>> \o WireKeys(s, val.pos, n - 1)

\* the input is one well-formed map, and a key of it is == to an earlier one
RepeatsKey(s) ==
    /\ Wire(s, "wf") = "ok"
    /\ s[1] \div 32 = 5
    /\ LET keys == WireKeys(s, 2 + ArgWidth(s[1] % 32),
                            IF s[1] % 32 = 31 THEN Len(s)
                            ELSE U64ToNat(ArgOf(s, 1)))
       IN  \E j \in 1..Len(keys) : KeySeen(SubSeq(keys, 1, j - 1), keys[j])

\* C8: decoding a map, definite or indefinite, that repeats a key fails with
\* NotWellFormed
RepeatedKeyRejected ==
    (op = "decode" /\ item = NoItem /\ RepeatsKey(input))
        => (~res.ok /\ res.err = "NotWellFormed")

\* the input begins an indefinite-length item and ends before its break
OpenIndefinite(s) ==
    /\ Len(s) > 0
    /\ s[1] \in {95, 127, 159, 191}
    /\ Wire(s, "valid") \in {"header", "inside", "boundary"}

BreakRejected ==
    (op = "decode" /\ item = NoItem /\ Wire(input, "valid") = "break")
        => (~res.ok /\ res.err = "InvalidBreakStop")

\* a break stood in the value position of the second entry of an open map
BreakRejectedReached ==
    /\ op = "decode"
    /\ item = NoItem
    /\ Wire(input, "valid") = "break"
    /\ input = <<191, 0, 0, 1, 255>>
    /\ ~res.ok
    /\ res.err = "InvalidBreakStop"

\* C12: an input that ends where the header of a required item is expected
\* (the empty input, an element of a definite-length array, a key of a
\* definite-length map, the value of a map entry, the content of a tag)
\* makes decode fail with Incomplete
MissingHeaderIncomplete ==
    (op = "decode" /\ item = NoItem /\ Wire(input, "valid") = "header")
        => (~res.ok /\ res.err = "Incomplete")

\* a map of two entries ended behind the key of its second entry
MissingHeaderIncompleteReached ==
    /\ op = "decode"
    /\ item = NoItem
    /\ Wire(input, "valid") = "header"
    /\ input = <<162, 0, 0, 1>>
    /\ ~res.ok
    /\ res.err = "Incomplete"

RECURSIVE ChunkPayloads(_, _)
\* the payloads of the chunks of a well-formed open string from index p on
ChunkPayloads(s, p) ==
    IF p > Len(s) \/ s[p] = 255 THEN <<>>
    ELSE LET from == p + ArgWidth(s[p] % 32) + 1
             to == from + U64ToNat(ArgOf(s, p)) - 1
         IN  <<SubSeq(s, from, to)>> \o ChunkPayloads(s, to + 1)

\* the payloads of the chunks of an input that is one well-formed string
TextChunks(s) ==
    IF s[1] % 32 = 31 THEN ChunkPayloads(s, 2)
    ELSE <<SubSeq(s, 2 + ArgWidth(s[1] % 32), Len(s))>>

\* the input is one well-formed text string
IsTextString(s) == Wire(s, "wf") = "ok" /\ s[1] \div 32 = 3

\* C15, as stated: a text string decodes exactly when its chunks put
\* together are valid UTF-8, and fails with the UTF-8 error otherwise
FlattenedUtf8Decides ==
    (op = "decode" /\ item = NoItem /\ IsTextString(input))
        => /\ res.ok <=> ValidUtf8(Flatten(TextChunks(input)))
           /\ ~res.ok => res.err = "FromUtf8"

\* C15, amended: a text string decodes exactly when every chunk of it is
\* valid UTF-8 by itself, and fails with the UTF-8 error otherwise
ChunkwiseUtf8Decides ==
    (op = "decode" /\ item = NoItem /\ IsTextString(input))
        => /\ res.ok <=> \A i \in 1..Len(TextChunks(input)) :
                            ValidUtf8(TextChunks(input)[i])
           /\ ~res.ok => res.err = "FromUtf8"

\* the two bytes of one character came in two chunks and were rejected
ChunkwiseUtf8DecidesReached ==
    /\ op = "decode"
    /\ item = NoItem
    /\ IsTextString(input)
    /\ input = <<127, 97, 195, 97, 169, 255>>
    /\ ValidUtf8(Flatten(TextChunks(input)))
    /\ ~res.ok
    /\ res.err = "FromUtf8"

IsString(s) == Wire(s, "wf") = "ok" /\ s[1] \div 32 \in {2, 3}

RECURSIVE WireForms(_, _)
RECURSIVE WireFormsOf(_, _, _)
\* the forms (TRUE: indefinite-length) of the arrays and maps of the
\* well-formed item at p, each before the arrays and maps inside it
WireForms(s, p) ==
    LET mt == s[p] \div 32
        ai == s[p] % 32
        inside == p + ArgWidth(ai) + 1
        n == IF ai = 31 THEN 0 - 1 ELSE U64ToNat(ArgOf(s, p))
    IN  CASE mt = 4 -> <<ai = 31>> \o WireFormsOf(s, inside, n)
          [] mt = 5 -> <<ai = 31>> \o WireFormsOf(s, inside, 2 * n)
          [] mt = 6 -> WireForms(s, inside)
          [] OTHER -> <<>>

\* the same for the n items from p on, or for the items up to the break
\* when n is negative
WireFormsOf(s, p, n) ==
    IF n = 0 \/ (n < 0 /\ s[p] = 255) THEN <<>>
    ELSE WireForms(s, p)
         \o WireFormsOf(s, WireItem(s, p, "wf").pos, IF n < 0 THEN n ELSE n - 1)

RECURSIVE ValueForms(_)
RECURSIVE ValueFormsOf(_)
\* the is_indefinite flags of the arrays and maps of a DataItem, each
\* before the arrays and maps inside it
ValueForms(v) ==
    CASE v.kind = "Array" -> <<v.indef>> \o ValueFormsOf(v.items)
      [] v.kind = "Map" ->
            <<v.indef>>
            \o ValueFormsOf([i \in 1..2 * Len(v.entries) |->
                                v.entries[(i + 1) \div 2][2 - (i % 2)]])
      [] v.kind = "Tag" -> ValueForms(v.content)
      [] OTHER -> <<>>

ValueFormsOf(items) ==
    IF items = <<>> THEN <<>>
    ELSE ValueForms(Head(items)) \o ValueFormsOf(Tail(items))

\* C23: a decoded indefinite-length string is indefinite and holds the
\* chunks of the wire in order, one for one, the empty ones too, and full()
\* puts them together; a decoded definite-length string is definite and
\* holds one chunk; every decoded array and map is indefinite exactly when
\* it is so on the wire
DecodedFormIsWireForm ==
    /\ (op = "decode" /\ item = NoItem /\ IsString(input) /\ res.ok)
           => /\ res.val.indef = (input[1] % 32 = 31)
              /\ chunk(res.val) = TextChunks(input)
              /\ full(res.val) = Flatten(TextChunks(input))
              /\ ~res.val.indef => Len(chunk(res.val)) = 1
    /\ (op = "decode" /\ item = NoItem /\ Wire(input, "valid") = "ok")
           => /\ res.ok
              /\ ValueForms(res.val) = WireForms(input, 1)

\* a text string of three chunks, the first and the last empty
DecodedFormIsWireFormReached ==
    /\ op = "decode"
    /\ input = <<127, 96, 97, 96, 96, 255>>
    /\ res.ok
    /\ res.val.indef
    /\ chunk(res.val) = <<<<>>, <<96>>, <<>>>>

\* bytes to put behind an input: none, an item, a break, a header without
\* its argument, a reserved header, the beginning of an open string
Tails == {<<>>, <<0>>, <<255>>, <<24>>, <<28>>, <<95, 65>>, <<255, 255>>}

\* C28: decode reads one item from the front of the input and ignores what
\* follows: when it succeeds, it returns the same on the bytes of the item
\* alone, on every longer beginning of the input and on the input with
\* further bytes behind it
TrailingIgnored ==
    (op = "decode" /\ item = NoItem /\ res.ok)
        => /\ \A k \in (res.pos - 1)..Len(input) :
                 decode(SubSeq(input, 1, k)) = res
           /\ \A t \in Tails : decode(input \o t) = res

\* the input 00 ff ff gave the integer 0, read from its first byte
TrailingIgnoredReached ==
    /\ op = "decode"
    /\ input = <<0, 255, 255>>
    /\ res.ok
    /\ res.val = Unsigned(NatToU64(0))
    /\ res.pos = 2

(***************************************************************************)
(* Properties of decoding short inputs (under SpecShort).                  *)
(***************************************************************************)
\* C11: a header of any major type with additional information 28, 29 or 30
\* where an item is expected, at the top or nested in an array, a map or a
\* tag, makes decode fail with NotWellFormed
ReservedRejected ==
    (op = "decode" /\ item = NoItem /\ Wire(input, "valid") = "reserved")
        => (~res.ok /\ res.err = "NotWellFormed")

\* a byte string header with additional information 29 stood in an array
\* that is the content of a tag
ReservedRejectedReached ==
    /\ op = "decode"
    /\ item = NoItem
    /\ Wire(input, "valid") = "reserved"
    /\ input = <<192, 129, 93>>
    /\ ~res.ok
    /\ res.err = "NotWellFormed"

\* the bytes that are missing where the input ends inside a field
Shortfall(s) == WireItem(s, 1, "valid").missing

\* C13: an input that ends inside an argument of 1, 2, 4 or 8 bytes or inside
\* the payload of a definite-length string makes decode fail with
\* NotWellFormed, and the message reports the bytes required less the bytes
\* available
TruncatedReportsShortfall ==
    (op = "decode" /\ item = NoItem /\ Wire(input, "valid") = "inside")
        => /\ ~res.ok
           /\ res.err = "NotWellFormed"
           /\ res.msg = "incomplete array of byte missing"
           /\ res.num = Shortfall(input)

\* C14: in an indefinite-length byte or text string a chunk header of
\* another major type makes decode fail with NotWellFormed naming the major
\* type found and the one expected, and a chunk that is itself of indefinite
\* length makes it fail with NotWellFormed
ChunkRuleEnforced ==
    LET scan == WireItem(input, 1, "valid")
    IN  /\ (op = "decode" /\ item = NoItem /\ scan.st = "chunktype")
               => /\ ~res.ok
                  /\ res.err = "NotWellFormed"
                  /\ res.msg
                       = "contains invalid major type for indefinite major type"
                  /\ res.arg = scan.found
                  /\ res.num = NatToU64(scan.expected)
        /\ (op = "decode" /\ item = NoItem /\ scan.st = "chunkopen")
               => (~res.ok /\ res.err = "NotWellFormed")

\* an array header stood behind the first chunk of an open byte string
ChunkRuleEnforcedReached ==
    /\ op = "decode"
    /\ item = NoItem
    /\ input = <<95, 64, 128>>
    /\ WireItem(input, 1, "valid").st = "chunktype"
    /\ ~res.ok
    /\ res.err = "NotWellFormed"
    /\ res.arg = 4
    /\ res.num = NatToU64(2)

(***************************************************************************)
(* Properties of scalars (under SpecScalar).                               *)
(***************************************************************************)
\* C16: SimpleValue::try_from(x) is Ok for x in 0..19 and 32..255 and
\* Err(InvalidSimple) for x in 20..31, so that every GenericSimple that is
\* constructed or decoded holds a number outside 20..31
SimpleValueRange ==
    /\ op = "try_from"
           => /\ res.arg \in (0..19) \cup (32..255)
                    => (res.ret.ok /\ res.ret.val = res.arg)
              /\ res.arg \in 20..31
                    => (~res.ret.ok /\ res.ret.err = "InvalidSimple")
    /\ item.kind = "GenericSimple" => item.simple \notin 20..31
    /\ (op = "decode" /\ res.ok /\ res.val.kind = "GenericSimple")
           => res.val.simple \notin 20..31

\* try_from was asked for 23 and refused it
SimpleValueRangeReached ==
    /\ op = "try_from"
    /\ res.arg = 23
    /\ ~res.ret.ok
    /\ res.ret.err = "InvalidSimple"

\* C25: behind the header f8 the next byte x decides: GenericSimple(x) for
\* x >= 32, InvalidSimple for x < 32, and Incomplete when the input ends
\* before x
ExtendedSimpleDecided ==
    (op = "decode" /\ item = NoItem /\ input # <<>> /\ input[1] = 248)
        => IF Len(input) = 1 THEN ~res.ok /\ res.err = "Incomplete"
           ELSE IF input[2] >= 32
           THEN res.ok /\ res.val = GenericSimple(input[2])
           ELSE ~res.ok /\ res.err = "InvalidSimple"

RECURSIVE U64Leq(_, _)
\* a <= b for two u64, or any two byte strings of one length
U64Leq(a, b) ==
    IF a = <<>> THEN TRUE
    ELSE IF a[1] # b[1] THEN a[1] < b[1]
    ELSE U64Leq(Tail(a), Tail(b))

\* the header and argument the format asks for: the narrowest of the five
\* widths that holds n
MinimalHeader(major, n) ==
    IF U64Leq(n, NatToU64(23)) THEN << major * 32 + n[8] >>
    ELSE IF U64Leq(n, NatToU64(255)) THEN << major * 32 + 24, n[8] >>
    ELSE IF U64Leq(n, NatToU64(65535))
    THEN << major * 32 + 25, n[7], n[8] >>
    ELSE IF U64Leq(n, <<0, 0, 0, 0, 255, 255, 255, 255>>)
    THEN << major * 32 + 26, n[5], n[6], n[7], n[8] >>
    ELSE << major * 32 + 27 >> \o n

\* the number an item carries in its header: the integer, the tag number,
\* the length of the definite string, array or map
HeaderNumber(v) ==
    CASE v.kind \in {"Unsigned", "Signed"} -> v.num
      [] v.kind = "Tag" -> v.tag
      [] v.kind \in {"Byte", "Text"} -> NatToU64(Len(Flatten(v.chunks)))
      [] v.kind = "Array" -> NatToU64(Len(v.items))
      [] OTHER -> NatToU64(Len(v.entries))

\* the item carries a number in its header
HasHeaderNumber(v) ==
    \/ v.kind \in {"Unsigned", "Signed", "Tag"}
    \/ (v.kind \in {"Byte", "Text", "Array", "Map"} /\ ~v.indef)

\* C17: encode writes an integer, a tag number or a definite length in the
\* narrowest of the five argument widths, and decoding the bytes gives the
\* number back
MinimalArgument ==
    LET header == MinimalHeader(major_type(item), HeaderNumber(item))
    IN  /\ (op = "encode" /\ HasHeaderNumber(item))
               => SubSeq(out, 1, Len(header)) = header
        /\ (op = "decode" /\ HasHeaderNumber(item))
               => /\ res.ok
                  /\ res.val.kind = item.kind
                  /\ HeaderNumber(res.val) = HeaderNumber(item)

\* the negative integer -65537 went out with a four-byte argument and came
\* back
MinimalArgumentReached ==
    /\ op = "decode"
    /\ item = Signed(NatToU64(65536))
    /\ out = <<58, 0, 1, 0, 0>>
    /\ res.ok
    /\ res.val = item

\* -(1 + n) as an i128: in two's complement it is the complement of n
\* behind 64 one bits
MinusOneMinus(n) == [i \in 1..8 |-> 255] \o [i \in 1..8 |-> 255 - n[i]]

\* C18: as_signed and as_number on Signed(n) return Some(-(1 + n)) as an
\* i128 for every n, u64::MAX included, and never overflow
SignedReadBack ==
    (op \in {"as_signed", "as_number"} /\ item.kind = "Signed")
        => (~res.ret.panic /\ res.ret.val = Some(MinusOneMinus(item.num)))

\* the session made its item from the i64 it remembers
MadeFromI64(r) == DOMAIN r = {"arg"}

\* i128::from(v) for an i64: the sign carried into the upper 64 bits
I128FromI64(v) == [i \in 1..8 |-> IF v[1] >= 128 THEN 255 ELSE 0] \o v

\* C19: DataItem::from(v) for an i64 never overflows: for v < 0, i64::MIN
\* included, it is Signed(-(v) - 1), for v >= 0 it is Unsigned(v), and
\* as_number gives v back
NativeConstruction ==
    /\ op # "panic"
    /\ (op = "none" /\ MadeFromI64(res))
           => item = IF res.arg[1] >= 128
                     THEN Signed([i \in 1..8 |-> 255 - res.arg[i]])
                     ELSE Unsigned(res.arg)
    /\ (op = "as_number" /\ MadeFromI64(res.of))
           => (~res.ret.panic /\ res.ret.val = Some(I128FromI64(res.of.arg)))

RECURSIVE ZeroBitsBelow(_, _)
\* the number of zero bits below the lowest set bit of m in a field of w bits
ZeroBitsBelow(m, w) ==
    IF w = 0 \/ m % 2 = 1 THEN 0 ELSE 1 + ZeroBitsBelow(m \div 2, w - 1)

\* the number of zero bits at the low end of the 52 mantissa bits of an f64
MantissaZeros(x) ==
    IF x[8] # 0 THEN ZeroBitsBelow(x[8], 8)
    ELSE IF x[7] # 0 THEN 8 + ZeroBitsBelow(x[7], 8)
    ELSE IF x[6] # 0 THEN 16 + ZeroBitsBelow(x[6], 8)
    ELSE IF x[5] # 0 THEN 24 + ZeroBitsBelow(x[5], 8)
    ELSE 32 + ZeroBitsBelow(F64ManHi(x), 20)

\* some value of the IEEE format with man_bits mantissa bits and the normal
\* exponents min_exp..max_exp widens to exactly the bits of x: x is a zero or
\* an infinity, a quiet NaN whose payload fits, or a number in range whose
\* mantissa has no bit below the last bit of the format
FitsFormat(x, man_bits, min_exp, max_exp) ==
    LET e == F64Exp(x) - 1023
        spare == MantissaZeros(x) - (52 - man_bits)
    IN  CASE F64IsZero(x) -> TRUE
          [] F64Exp(x) = 0 /\ ~F64IsZero(x) -> FALSE
          [] F64Exp(x) = 2047 /\ ~F64IsNaN(x) -> TRUE
          [] F64IsNaN(x) -> spare >= 0 /\ F64ManHi(x) >= 524288
          [] OTHER ->
                /\ e <= max_exp
                /\ spare >= (IF e >= min_exp THEN 0 ELSE min_exp - e)

FitsHalf(x) == FitsFormat(x, 10, -14, 15)

FitsSingle(x) == FitsFormat(x, 23, -126, 127)

\* the additional information of the narrowest float that holds x
SmallestWidth(x) ==
    IF FitsHalf(x) THEN 25 ELSE IF FitsSingle(x) THEN 26 ELSE 27

\* the session encoded a Floating, and maybe decoded the encoding
FloatWritten == op \in {"encode", "decode"} /\ item.kind = "Floating"

\* C20, as stated: encode writes Floating(x) in the narrowest of half,
\* single and double from which decoding gives back the bits of x, NaN and
\* the infinities (in half precision) included
SmallestFloat ==
    /\ FloatWritten
           => /\ out[1] = 224 + SmallestWidth(item.bits)
              /\ Len(out) = 1 + ArgWidth(out[1] % 32)
    /\ (FloatWritten /\ op = "decode")
           => (res.ok /\ res.val = item)

\* C20, amended: the same for every x that is not a NaN; a NaN is written in
\* double precision, and decoding gives back its bits
SmallestFloatButNaN ==
    /\ (FloatWritten /\ ~F64IsNaN(item.bits))
           => /\ out[1] = 224 + SmallestWidth(item.bits)
              /\ Len(out) = 1 + ArgWidth(out[1] % 32)
    /\ (FloatWritten /\ F64IsNaN(item.bits))
           => out = <<251>> \o item.bits
    /\ (FloatWritten /\ op = "decode")
           => (res.ok /\ res.val = item)

\* the negative infinity went out in half precision and came back
SmallestFloatButNaNReached ==
    /\ op = "decode"
    /\ item = Floating(<<255, 240, 0, 0, 0, 0, 0, 0>>)
    /\ out = <<249, 252, 0>>
    /\ res.ok
    /\ res.val = item

\* the major type of each variant of DataItem, in the order of the enum
MajorOfVariant(kind) ==
    CASE kind = "Unsigned" -> 0
      [] kind = "Signed" -> 1
      [] kind = "Byte" -> 2
      [] kind = "Text" -> 3
      [] kind = "Array" -> 4
      [] kind = "Map" -> 5
      [] kind = "Tag" -> 6
      [] kind \in {"Boolean", "Null", "Undefined", "Floating",
                   "GenericSimple"} -> 7

\* C22: encode returns at least one byte, the top three bits of the first
\* byte are major_type() of the item, and major_type() is the number of the
\* item's variant: 0..6 for Unsigned, Signed, Byte, Text, Array, Map, Tag and
\* 7 for Boolean, Null, Undefined, Floating and GenericSimple
EncodeTotal ==
    op = "encode"
        => /\ out # <<>>
           /\ out[1] \div 32 = major_type(item)
           /\ major_type(item) = MajorOfVariant(item.kind)

\* the simple value 255 went out as f8 ff
EncodeTotalReached ==
    /\ op = "encode"
    /\ item = GenericSimple(255)
    /\ out = <<248, 255>>

(***************************************************************************)
(* Properties of tagged values (under SpecInner).                          *)
(***************************************************************************)
RECURSIVE Wrapped(_, _)
\* x inside tags with the numbers t, the first of them outermost
Wrapped(x, t) ==
    IF t = <<>> THEN x ELSE Tag(Head(t), Wrapped(x, Tail(t)))

RECURSIVE Layers(_)
\* the t and the x with v = Wrapped(x, t) and x not a tag
Layers(v) == IF v.kind = "Tag" THEN <<v.tag>> \o Layers(v.content) ELSE <<>>

RECURSIVE Core(_)
Core(v) == IF v.kind = "Tag" THEN Core(v.content) ELSE v

\* C24: for an item that is x inside k >= 0 tags with the numbers t1
\* (outermost) to tk, x not a tag: check_inner(p) is p(x); as_inner(f) is
\* Some((<<t1, ..., tk>>, y)) when f(x) is Some(y) and None when f(x) is
\* None; as_inner(as_tag) is None
InnerDecides ==
    LET x == Core(item)
        t == Layers(item)
    IN  op \in {"check_inner", "as_inner"}
            => /\ item = Wrapped(x, t)
               /\ x \in Inner
               /\ op = "check_inner"
                    => res.ret = call_checker(res.checker, x)
               /\ op = "as_inner"
                    => /\ res.ret
                          = IF call_extractor(res.extractor, x).some
                            THEN Some(<<t, call_extractor(res.extractor, x).val>>)
                            ELSE None
                       /\ res.extractor = "as_tag" => res.ret = None

\* as_inner(as_unsigned) on 20(30(0(24))) gave the three tag numbers from
\* the outside in, and 24
InnerDecidesReached ==
    /\ op = "as_inner"
    /\ item = Wrapped(Unsigned(NatToU64(24)),
                      <<NatToU64(20), NatToU64(30), NatToU64(0)>>)
    /\ res.extractor = "as_unsigned"
    /\ res.ret = Some(<<<<NatToU64(20), NatToU64(30), NatToU64(0)>>,
                        NatToU64(24)>>)

(***************************************************************************)
(* Properties of contents (under SpecContent).                             *)
(***************************************************************************)
\* C27: after any sequence of the content operations a content that is not
\* indefinite holds one chunk; set_indefinite leaves the chunks as they
\* were, set_bytes leaves the flag as it was
DefiniteHoldsOneChunk ==
    /\ (item # NoItem /\ ~item.indef) => Len(chunk(item)) = 1
    /\ op = "set_indefinite" => chunk(item) = chunk(res.before)
    /\ op = "set_bytes" => item.indef = res.before.indef

(***************************************************************************)
(* Properties of two values (under SpecHash).                              *)
(***************************************************************************)
\* C29: two DataItems that are == have the same hash, two maps of the same
\* entries in another order among them; so a map finds the entry of a key
\* under every key == to it, and decode rejects a map whose two keys are ==
HashAgreesWithEq ==
    (op = "hash" /\ res.eq)
        => /\ res.hashes[1] = res.hashes[2]
           /\ res.found = Some(Null)
           /\ ~res.twice.ok

(***************************************************************************)
(* Properties of built values (under SpecValue).                           *)
(***************************************************************************)
RECURSIVE ContainsIndefinite(_)
\* an indefinite-length byte string, text string, array or map is somewhere
\* in the tree
ContainsIndefinite(v) ==
    CASE v.kind \in {"Byte", "Text"} -> v.indef
      [] v.kind = "Array" ->
            v.indef \/ \E i \in 1..Len(v.items) : ContainsIndefinite(v.items[i])
      [] v.kind = "Map" ->
            \/ v.indef
            \/ \E i \in 1..Len(v.entries) :
                  \/ ContainsIndefinite(v.entries[i][1])
                  \/ ContainsIndefinite(v.entries[i][2])
      [] v.kind = "Tag" -> ContainsIndefinite(v.content)
      [] OTHER -> FALSE

\* C2: a built value without indefinite content decodes from its encoding
\* to a value == to it
ValueRoundTrip ==
    (op = "decode" /\ item # NoItem /\ ~ContainsIndefinite(item))
        => (res.ok /\ DataItemEq(res.val, item))

\* C3: the value deterministic(m) returns is deterministic under m
CanonicalizationSound ==
    (op = "deterministic") => is_deterministic(res.val, res.mode)

\* a map of two entries that was not in order came back in order
CanonicalizationSoundReached ==
    /\ op = "deterministic"
    /\ item.kind = "Map"
    /\ Len(item.entries) = 2
    /\ ~item.indef
    /\ ~is_deterministic(item, res.mode)
    /\ res.val.entries = <<item.entries[2], item.entries[1]>>
    /\ is_deterministic(res.val, res.mode)

\* C4: deterministic(m) applied to its own result returns a value == to it,
\* with the same encoding
CanonicalizationIdempotent ==
    (op = "deterministic")
        => /\ DataItemEq(deterministic(res.val, res.mode), res.val)
           /\ encode(deterministic(res.val, res.mode)) = encode(res.val)

\* the entries in every order of insertion
Orderings(entries) ==
    LET n == Len(entries)
    IN  { [i \in 1..n |-> entries[f[i]]] :
            f \in { g \in [1..n -> 1..n] :
                      \A a, b \in 1..n : a # b => g[a] # g[b] } }

\* no two entries have keys of the same encoding
DistinctKeys(entries) ==
    \A i, j \in 1..Len(entries) :
        i # j => encode(entries[i][1]) # encode(entries[j][1])

\* C5: two maps of the same entries, the keys all different, in different
\* insertion order have the same canonical encoding
InsertionOrderIrrelevant ==
    (op = "deterministic" /\ item.kind = "Map" /\ DistinctKeys(item.entries))
        => \A other \in Orderings(item.entries) :
              encode(deterministic([item EXCEPT !.entries = other], res.mode))
                  = encode(res.val)

\* C6: is_deterministic is false for a value that holds an indefinite-length
\* item anywhere in its tree
IndefiniteNeverDeterministic ==
    (op = "is_deterministic" /\ ContainsIndefinite(item)) => ~res.val

\* a is not behind b in the order of bytes: the first byte in which they
\* differ is smaller in a, or a is a beginning of b
LexLeq(a, b) ==
    \/ /\ Len(a) <= Len(b)
       /\ \A i \in 1..Len(a) : a[i] = b[i]
    \/ \E i \in 1..Len(a) :
          /\ i <= Len(b)
          /\ a[i] < b[i]
          /\ \A j \in 1..(i - 1) : a[j] = b[j]

\* the encodings of two adjacent keys are in the order of the mode
InModeOrder(a, b, mode) ==
    IF mode = "Core" THEN LexLeq(a, b)
    ELSE Len(a) < Len(b) \/ (Len(a) = Len(b) /\ LexLeq(a, b))

\* C7: on a definite map without indefinite content is_deterministic(m) is
\* true exactly when every two adjacent keys are in the order of m
AdjacentKeyOrder ==
    (op = "is_deterministic" /\ item.kind = "Map" /\ ~ContainsIndefinite(item))
        => (res.val <=>
               \A i \in 1..(Len(item.entries) - 1) :
                  InModeOrder(encode(item.entries[i][1]),
                              encode(item.entries[i + 1][1]), res.mode))

\* a map whose shorter key has the greater first byte is in LengthFirst order
AdjacentKeyOrderReached ==
    /\ op = "is_deterministic"
    /\ item.kind = "Map"
    /\ ~ContainsIndefinite(item)
    /\ Len(item.entries) = 2
    /\ res.mode = "LengthFirst"
    /\ res.val
    /\ ~is_deterministic(item, "Core")

RECURSIVE Canonical(_, _, _)
\* w is v in canonical form: a string that was indefinite is one definite
\* chunk of all its bytes, an array is definite and holds the canonical
\* forms of its elements in their order, a map is definite, each of its
\* entries is the canonical form of an entry of v and its keys are in the
\* order of the mode, a tag keeps its number
Canonical(v, w, mode) ==
    CASE v.kind \in {"Byte", "Text"} ->
            IF v.indef
            THEN /\ w.kind = v.kind
                 /\ ~w.indef
                 /\ w.chunks = <<Flatten(v.chunks)>>
            ELSE w = v
      [] v.kind = "Array" ->
            /\ w.kind = "Array"
            /\ ~w.indef
            /\ Len(w.items) = Len(v.items)
            /\ \A i \in 1..Len(v.items) : Canonical(v.items[i], w.items[i], mode)
      [] v.kind = "Map" ->
            /\ w.kind = "Map"
            /\ ~w.indef
            /\ \A j \in 1..Len(w.entries) :
                  \E i \in 1..Len(v.entries) :
                      /\ Canonical(v.entries[i][1], w.entries[j][1], mode)
                      /\ Canonical(v.entries[i][2], w.entries[j][2], mode)
            /\ \A j \in 1..(Len(w.entries) - 1) :
                  InModeOrder(encode(w.entries[j][1]),
                              encode(w.entries[j + 1][1]), mode)
      [] v.kind = "Tag" ->
            /\ w.kind = "Tag"
            /\ w.tag = v.tag
            /\ Canonical(v.content, w.content, mode)
      [] OTHER -> w = v

\* C26: what deterministic(m) returns holds no indefinite-length item at
\* any depth, keys and values of maps, elements of arrays and contents of
\* tags included, and it is the canonical form of the value
NothingIndefiniteLeft ==
    (op = "deterministic")
        => /\ ~ContainsIndefinite(res.val)
           /\ Canonical(item, res.val, res.mode)

\* a map with an indefinite-length byte string as a value and another as a
\* key came back with both of them definite
NothingIndefiniteLeftReached ==
    /\ op = "deterministic"
    /\ item.kind = "Map"
    /\ \E i \in 1..Len(item.entries) :
          item.entries[i][1].kind = "Byte" /\ item.entries[i][1].indef
    /\ \E i \in 1..Len(item.entries) :
          item.entries[i][2].kind = "Byte" /\ item.entries[i][2].indef
    /\ ~ContainsIndefinite(res.val)

\* C30: deterministic(m) loses no entry: the map it returns has as many
\* entries as the map it was given, and every entry (k, v) of that map is
\* in it as (k.deterministic(m), v.deterministic(m)), also when two keys
\* differ in nothing but their chunking or their indefinite flag
NoEntryLost ==
    (op = "deterministic" /\ item.kind = "Map")
        => /\ res.val.kind = "Map"
           /\ Len(res.val.entries) = Len(item.entries)
           /\ \A i \in 1..Len(item.entries) :
                 \E j \in 1..Len(res.val.entries) :
                     res.val.entries[j]
                         = << deterministic(item.entries[i][1], res.mode),
                              deterministic(item.entries[i][2], res.mode) >>
====
